---------------------------- MODULE Spec2Model ----------------------------
(***************************************************************************)
(* PhishRadar ingest worker: the file-backed IngestQueue, the              *)
(* CircuitBreaker, the retry / dead-letter path of QdrantStore, the        *)
(* duplicate decision of dedup.upsert_and_check, and the SeenCache.        *)
(* Each component is a group of variables with its own specification; a    *)
(* specification leaves the other components' variables unchanged.         *)
(***************************************************************************)
EXTENDS Integers, Sequences, FiniteSets, TLC

VARIABLES
    \* ---- IngestQueue: the files of BUFFER_DIR ----
    qExists,      \* incoming.jsonl exists
    qLines,       \* its lines, in file order
    tmpExists,    \* incoming.jsonl.tmp exists
    tmpLines,     \* its lines
    lockExists,   \* .incoming.lock exists
    \* ---- IngestQueue: one coroutine per process ----
    qpc,          \* where each process is inside push / fetch
    qtries,       \* iterations of the _lock loop that found the lock taken
    qheld,        \* this call's _lock created the lock file
    qrow,         \* the row argument of push
    qlimit,       \* the limit argument of fetch
    qread,        \* fetch's local `lines`
    \* ---- IngestQueue: history ----
    nextRow,      \* identity of the next row to be pushed
    pushedLog,    \* rows whose push wrote its line, in write order
    fetchedLog,   \* one record per returned fetch
    faults,       \* writes that stopped part-way and deaths of the process so far
    \* ---- CircuitBreaker: the object's fields ----
    cbState,      \* self.state: "CLOSED", "OPEN" or "HALF_OPEN"
    cbFailures,   \* self.failures
    cbOpenedAt,   \* self._opened_at
    \* ---- CircuitBreaker: its callers and the clock ----
    now,          \* time.monotonic(), in ticks
    cpc,          \* each task: "idle", or "running" the wrapped function inside run()
    ctrial,       \* the task's call is the one allow() moved OPEN -> HALF_OPEN for
    \* ---- CircuitBreaker: history ----
    runs,         \* run() calls issued
    fnCalls,      \* invocations of wrapped functions
    consec,       \* failed calls completed since the last successful one
    cbLast,       \* the last allow / on_success / on_failure, and the state it met
    trialFailAt,  \* when a trial call last failed (-1: never)
    \* ---- QdrantStore / net_retry: one call per task ----
    spc,          \* where each task is inside its call
    sop,          \* the operation: a store operation, or "net" for a net_retry function
    smax,         \* the retry loop's stop_after_attempt bound
    splan,        \* the wrapped function fails on its first splan[k] attempts
    sattempt,     \* tenacity's attempt_number
    sinv,         \* invocations of the wrapped function by this call
    sfails,       \* attempts of this call that raised
    sraised,      \* the attempt whose exception the call raised to its caller (0: none)
    stime,        \* when the attempt in progress entered asyncio.timeout; history:
                  \* the last attempt to fail ended at its deadline
    \* ---- QdrantStore: the rate limiter and the dead-letter files ----
    limLast,      \* AsyncRateLimiter._last
    limHolder,    \* the task sleeping inside AsyncRateLimiter._lock (0: none)
    dlq,          \* records appended by write_dlq, in order
    \* ---- QdrantStore: history ----
    clientCalls,  \* invocations of the vector-store client
    sconsec,      \* failed client attempts since the last successful one
    stripAt,      \* when a client attempt last failed with sconsec at the threshold
    sLast,        \* what the last client invocation met: sconsec, time since stripAt
    \* ---- upsert_and_check: the collection and the dead-letter file ----
    points,       \* the points of the Qdrant collection
    ddlq,         \* records appended to dlq/qdrant_upsert.jsonl
    \* ---- upsert_and_check: one invocation per request ----
    dpc,          \* where each invocation is
    durl,         \* its url argument
    dvector,      \* its vector argument
    dpayload,     \* its payload argument
    dhitsSame,    \* hits_same
    dhitsAll,     \* hits_all
    dcaught,      \* a search raised and the first except clause caught it
    dresult,      \* the returned tuple, once returned
    \* ---- upsert_and_check: history ----
    dwrites,      \* store.upsert calls of the invocation that returned a point id
    dstart,       \* the collection's points when the invocation was called
    dalone,       \* no other invocation has been in progress during this one
    dsearches,    \* the store searches the invocation issued, and whether each returned
    \* ---- SeenCache ----
    kstore,       \* the Redis keys: for each URL's key its expiry time (0: not set)
    kmem,         \* self._mem: its unevicted entries, oldest first
    know,         \* the clock of Redis and of the TTLCache, in ticks
    \* ---- SeenCache: history ----
    kcalls,       \* mark_if_new calls made
    ktrueAt,      \* per URL, when mark_if_new last returned True (-1: never)
    kpath,        \* per URL, which store has answered its calls
    kevicted,     \* per URL, its unexpired _mem entry was evicted for capacity
    kLast,        \* the last call: url, result, ktrueAt before it, time, fallback
    \* ---- FeedPoller._poll_once and ingest_submit ----
    pcache,       \* the URLs the SeenCache holds
    prows,        \* the rows pushed to the IngestQueue, in push order
    ppc,          \* where the poll cycle is: idle, fetch, loop, returned
    pforce,       \* its force argument
    plimit,       \* its limit argument (NoLimit: None)
    pmerged,      \* merged: the fetched items' URLs
    pidx,         \* how many items of merged the loop has taken
    pseenLocal,   \* seen_local
    pcount,       \* new_count
    pret,         \* the returned count
    \* ---- FeedPoller._poll_once: history ----
    pstat,        \* of the cycle: queue length and cache at its start, mark_if_new
                  \* calls made, URLs whose push raised
    pcalls,       \* cycles and submissions started
    \* ---- FeedPoller: the loop task, start and stop ----
    ltasks,       \* the tasks start() has created, oldest first; _task is the last
    lstop,        \* self._stop is set
    lnow,         \* the event loop's clock, in ticks
    lstops,       \* the stop() calls: where each is, the task it awaits, since when
    \* ---- FeedPoller: history ----
    lstopped,     \* the tasks a stop() call that awaited them has returned for
    lLast,        \* the last call issued (op), and of the last start(): a task
                  \* was alive, one was created, _stop changed
    lcalls,       \* start() and stop() calls made
    \* ---- AsyncRateLimiter called by concurrent tasks ----
    rlim,         \* the limiter: its rps argument and its period (0: not constructed)
    rpc,          \* where each caller of acquire() is: idle, queued, sleeping, returned
    rqueue,       \* the callers waiting for self._lock, first come first
    rret,         \* history: the times at which acquire() calls returned, in order
    \* ---- upsert_and_check invocations over time, each with its own store ----
    uinv,         \* per invocation: where it is, and its limiter's _last
    ucalls        \* history: the times of the vector-store client invocations, in order

qfiles == <<qExists, qLines, tmpExists, tmpLines, lockExists>>
qlocals == <<qpc, qtries, qheld, qrow, qlimit, qread>>
qhist == <<nextRow, pushedLog, fetchedLog, faults>>
qvars == <<qfiles, qlocals, qhist>>

bfields == <<cbState, cbFailures, cbOpenedAt>>
bhist == <<runs, fnCalls, consec, cbLast, trialFailAt>>
bvars == <<bfields, now, cpc, ctrial, bhist>>

slocals == <<spc, sop, smax, splan, sattempt, sinv, sfails, sraised, stime>>
shist == <<clientCalls, sconsec, stripAt, sLast>>
svars == <<slocals, limLast, limHolder, dlq, shist>>

dlocals == <<dpc, durl, dvector, dpayload, dhitsSame, dhitsAll, dcaught, dresult>>
dhist == <<dwrites, dstart, dalone, dsearches>>
dvars == <<points, ddlq, dlocals, dhist>>

khist == <<kcalls, ktrueAt, kpath, kevicted, kLast>>
kvars == <<kstore, kmem, know, khist>>

pvars == <<pcache, prows, ppc, pforce, plimit, pmerged, pidx, pseenLocal, pcount,
           pret, pstat, pcalls>>

coreVars == <<qvars, bvars, svars, dvars, kvars>>
lvars == <<ltasks, lstop, lnow, lstops, lstopped, lLast, lcalls>>
rvars == <<rlim, rpc, rqueue, rret>>
uvars == <<uinv, ucalls>>
xvars == <<pvars, lvars, rvars, uvars>>
vars == <<coreVars, xvars>>

-----------------------------------------------------------------------------
\* Bounds of the model.
NumProcs == 2      \* cooperating processes sharing the buffer directory
MaxRows == 3       \* rows pushed in one behaviour
MaxLimit == 2      \* largest limit passed to fetch
LockRetries == 2   \* the `retries` argument of _lock (50 by default)
MaxFetches == 2    \* fetch calls issued in one behaviour
NumCallers == 2    \* tasks calling CircuitBreaker.run concurrently
MaxRuns == 6       \* run() calls issued in one behaviour
MaxTime == 3       \* ticks of the monotonic clock in one behaviour
FailureThreshold == 2  \* CircuitBreaker(failure_threshold=...), 5 by default
RecoveryTime == 2      \* CircuitBreaker(recovery_time=...) in ticks, 10.0 s by default
NumTasks == 1      \* calls of store operations or net_retry functions, one task each
RetryMaxAttempts == 3  \* settings.retry_max_attempts, 5 by default
LimPeriod == 1     \* AsyncRateLimiter.period = 1 / rps, in ticks
MaxFaults == 1     \* writes that stop part-way and deaths of the process

Procs == 1 .. NumProcs
Rows == 1 .. MaxRows

Min(a, b) == IF a <= b THEN a ELSE b
Max(a, b) == IF a >= b THEN a ELSE b

-----------------------------------------------------------------------------
\* json.dumps(row) + "\n": a line that json.loads parses back to the row, with
\* its newline.
Dumps(row) == [ok |-> TRUE, row |-> row, nl |-> TRUE]

\* What is left of the line when the write stops part-way: a fragment that
\* does not parse, without newline.
Torn(row) == [ok |-> FALSE, row |-> row, nl |-> FALSE]

\* open(QUEUE_FILE, "a") and write: the text goes to the end of the file, so
\* after a fragment without newline it continues that line, which no longer
\* parses.
Appended(lns, ln) ==
    IF lns # <<>> /\ ~lns[Len(lns)].nl
    THEN SubSeq(lns, 1, Len(lns) - 1)
            \o <<[ok |-> FALSE, row |-> lns[Len(lns)].row, nl |-> ln.nl]>>
    ELSE Append(lns, ln)

\* json.loads(ln) succeeds exactly on well-formed lines.
Parses(ln) == ln.ok
Loads(ln) == ln.row

RECURSIVE ParseLinesStopsAtBad(_)
ParseLinesStopsAtBad(lns) ==
    IF lns = <<>> \/ ~Parses(Head(lns)) THEN <<>>
    ELSE <<Loads(Head(lns))>> \o ParseLinesStopsAtBad(Tail(lns))

\* fetch: out = [json.loads(ln) for ln in take_lines if it parses]
RECURSIVE ParseLines(_)
ParseLines(lns) ==
    IF lns = <<>> THEN <<>>
    ELSE IF Parses(Head(lns)) THEN <<Loads(Head(lns))>> \o ParseLines(Tail(lns))
         ELSE ParseLines(Tail(lns))

\* to_take = max(0, min(limit, len(lines)))
ToTake(limit, lns) == Max(0, Min(limit, Len(lns)))

\* take_lines = lines[:to_take]
TakeLines(limit, lns) == SubSeq(lns, 1, ToTake(limit, lns))

RestLinesSkipsOne(limit, lns) == SubSeq(lns, ToTake(limit, lns) + 2, Len(lns))

\* rest_lines = lines[to_take:]
RestLines(limit, lns) == SubSeq(lns, ToTake(limit, lns) + 1, Len(lns))

-----------------------------------------------------------------------------
\* IngestQueue.  A push or fetch is a coroutine; every await on the thread pool
\* or on asyncio.sleep is a point where another process (or task) may run.

QInit ==
    /\ qExists = FALSE /\ qLines = <<>>
    /\ tmpExists = FALSE /\ tmpLines = <<>>
    /\ lockExists = FALSE
    /\ qpc = [p \in Procs |-> "idle"]
    /\ qtries = [p \in Procs |-> 0]
    /\ qheld = [p \in Procs |-> FALSE]
    /\ qrow = [p \in Procs |-> 0]
    /\ qlimit = [p \in Procs |-> 0]
    /\ qread = [p \in Procs |-> <<>>]
    /\ nextRow = 1
    /\ pushedLog = <<>>
    /\ fetchedLog = <<>>
    /\ faults = 0

\* push(row) is called: it enters _lock.
PushCall(p) ==
    /\ UNCHANGED <<bvars, svars, dvars, kvars, xvars>>
    /\ qpc[p] = "idle"
    /\ nextRow <= MaxRows
    /\ qpc' = [qpc EXCEPT ![p] = "push_lock"]
    /\ qrow' = [qrow EXCEPT ![p] = nextRow]
    /\ nextRow' = nextRow + 1
    /\ qtries' = [qtries EXCEPT ![p] = 0]
    /\ qheld' = [qheld EXCEPT ![p] = FALSE]
    /\ UNCHANGED <<qfiles, qlimit, qread, pushedLog, fetchedLog, faults>>

FetchPcs == {"fetch_lock", "fetch_read", "fetch_tmp", "fetch_replace",
             "fetch_remove", "fetch_unlock", "fetch_raise"}

\* fetch calls issued so far: the returned ones and those in progress.
FetchesIssued == Len(fetchedLog) + Cardinality({q \in Procs : qpc[q] \in FetchPcs})

\* fetch(limit) is called: it enters _lock.
FetchCall(p) ==
    /\ UNCHANGED <<bvars, svars, dvars, kvars, xvars>>
    /\ qpc[p] = "idle"
    /\ FetchesIssued < MaxFetches
    /\ \E lim \in 0 .. MaxLimit :
          qlimit' = [qlimit EXCEPT ![p] = lim]
    /\ qpc' = [qpc EXCEPT ![p] = "fetch_lock"]
    /\ qtries' = [qtries EXCEPT ![p] = 0]
    /\ qheld' = [qheld EXCEPT ![p] = FALSE]
    /\ qread' = [qread EXCEPT ![p] = <<>>]
    /\ UNCHANGED <<qfiles, qrow, qhist>>

\* The pc a call continues at when _lock returns.
AfterLock(pc) == IF pc = "push_lock" THEN "push_append" ELSE "fetch_read"

RetriesForever(tries) == 0

\* for _ in range(retries): the iterations made once one more has failed.
Retried(tries) == tries + 1

\* One iteration of the _lock loop: os.open(O_CREAT | O_EXCL) either creates the
\* lock file and _lock returns, or raises FileExistsError and the loop sleeps;
\* after `retries` such iterations _lock returns without the lock.
LockAttempt(p) ==
    /\ UNCHANGED <<bvars, svars, dvars, kvars, xvars>>
    /\ qpc[p] \in {"push_lock", "fetch_lock"}
    /\ IF ~lockExists
       THEN /\ lockExists' = TRUE
            /\ qheld' = [qheld EXCEPT ![p] = TRUE]
            /\ qpc' = [qpc EXCEPT ![p] = AfterLock(qpc[p])]
            /\ UNCHANGED qtries
       ELSE /\ qtries' = [qtries EXCEPT ![p] = Retried(qtries[p])]
            /\ qpc' = [qpc EXCEPT ![p] =
                  IF Retried(qtries[p]) >= LockRetries THEN AfterLock(qpc[p]) ELSE qpc[p]]
            /\ UNCHANGED <<lockExists, qheld>>
    /\ UNCHANGED <<qExists, qLines, tmpExists, tmpLines, qrow, qlimit, qread, qhist>>

\* push: open(QUEUE_FILE, "a") and write the line.
PushAppend(p) ==
    /\ UNCHANGED <<bvars, svars, dvars, kvars, xvars>>
    /\ qpc[p] = "push_append"
    /\ qExists' = TRUE
    /\ qLines' = Appended(qLines, Dumps(qrow[p]))
    /\ pushedLog' = Append(pushedLog, qrow[p])
    /\ qpc' = [qpc EXCEPT ![p] = "push_unlock"]
    /\ UNCHANGED <<tmpExists, tmpLines, lockExists, qtries, qheld, qrow, qlimit,
                   qread, nextRow, fetchedLog, faults>>

\* push: the write stops part-way with OSError (the disk is full): a fragment
\* of the line is in the file, and push raises through its finally clause.
PushTorn(p) ==
    /\ UNCHANGED <<bvars, svars, dvars, kvars, xvars>>
    /\ qpc[p] = "push_append"
    /\ faults < MaxFaults
    /\ faults' = faults + 1
    /\ qExists' = TRUE
    /\ qLines' = Appended(qLines, Torn(qrow[p]))
    /\ qpc' = [qpc EXCEPT ![p] = "push_unlock"]
    /\ UNCHANGED <<tmpExists, tmpLines, lockExists, qtries, qheld, qrow, qlimit,
                   qread, nextRow, pushedLog, fetchedLog>>

\* _unlock: remove the lock file, whoever created it; FileNotFoundError is ignored.
Unlock == lockExists' = FALSE

\* push: the finally clause; push returns.
PushUnlock(p) ==
    /\ UNCHANGED <<bvars, svars, dvars, kvars, xvars>>
    /\ qpc[p] = "push_unlock"
    /\ Unlock
    /\ qpc' = [qpc EXCEPT ![p] = "idle"]
    /\ qheld' = [qheld EXCEPT ![p] = FALSE]
    /\ UNCHANGED <<qExists, qLines, tmpExists, tmpLines, qtries, qrow, qlimit,
                   qread, qhist>>

\* fetch: readlines() of the queue file; a missing file reads as no lines, and
\* no lines means `return []` (through the finally clause).
FetchRead(p) ==
    /\ UNCHANGED <<bvars, svars, dvars, kvars, xvars>>
    /\ qpc[p] = "fetch_read"
    /\ qread' = [qread EXCEPT ![p] = IF qExists THEN qLines ELSE <<>>]
    /\ qpc' = [qpc EXCEPT ![p] =
          IF qread'[p] = <<>> THEN "fetch_unlock"
          ELSE IF RestLines(qlimit[p], qread'[p]) # <<>> THEN "fetch_tmp"
          ELSE "fetch_remove"]
    /\ UNCHANGED <<qfiles, qtries, qheld, qrow, qlimit, qhist>>

\* fetch: open(QUEUE_FILE + ".tmp", "w") and writelines(rest_lines).
FetchWriteTmp(p) ==
    /\ UNCHANGED <<bvars, svars, dvars, kvars, xvars>>
    /\ qpc[p] = "fetch_tmp"
    /\ tmpExists' = TRUE
    /\ tmpLines' = RestLines(qlimit[p], qread[p])
    /\ qpc' = [qpc EXCEPT ![p] = "fetch_replace"]
    /\ UNCHANGED <<qExists, qLines, lockExists, qtries, qheld, qrow, qlimit,
                   qread, qhist>>

\* What fetch returns: the parsed taken lines, or [] when nothing was read.
FetchResult(p) == ParseLines(TakeLines(qlimit[p], qread[p]))

FetchRecord(p) ==
    [proc |-> p, ok |-> qpc[p] = "fetch_unlock", limit |-> qlimit[p],
     before |-> Len(qread[p]),
     rows |-> IF qpc[p] = "fetch_unlock" THEN FetchResult(p) ELSE <<>>]

FetchReplaceInPlace(p) ==
    /\ UNCHANGED <<bvars, svars, dvars, kvars, xvars>>
    /\ qpc[p] = "fetch_replace"
    /\ IF qLines = qread[p]
       THEN /\ qLines' = <<>>
            /\ UNCHANGED <<qExists, tmpExists, tmpLines, qpc>>
       ELSE /\ qExists' = TRUE
            /\ qLines' = tmpLines
            /\ tmpExists' = FALSE
            /\ tmpLines' = <<>>
            /\ qpc' = [qpc EXCEPT ![p] = "fetch_unlock"]
    /\ UNCHANGED <<lockExists, qtries, qheld, qrow, qlimit, qread, qhist>>

\* fetch: os.replace(tmp, QUEUE_FILE).  When another fetch has already renamed
\* the temporary file away, replace raises FileNotFoundError: the call goes to
\* its finally clause and the error reaches the caller (no rows are returned).
FetchReplace(p) ==
    /\ UNCHANGED <<bvars, svars, dvars, kvars, xvars>>
    /\ qpc[p] = "fetch_replace"
    /\ IF tmpExists
       THEN /\ qExists' = TRUE
            /\ qLines' = tmpLines
            /\ tmpExists' = FALSE
            /\ tmpLines' = <<>>
            /\ qpc' = [qpc EXCEPT ![p] = "fetch_unlock"]
       ELSE /\ qpc' = [qpc EXCEPT ![p] = "fetch_raise"]
            /\ UNCHANGED <<qExists, qLines, tmpExists, tmpLines>>
    /\ UNCHANGED <<lockExists, qtries, qheld, qrow, qlimit, qread, qhist>>

\* fetch: os.remove(QUEUE_FILE) when nothing remains; FileNotFoundError is ignored.
FetchRemove(p) ==
    /\ UNCHANGED <<bvars, svars, dvars, kvars, xvars>>
    /\ qpc[p] = "fetch_remove"
    /\ qExists' = FALSE
    /\ qLines' = <<>>
    /\ qpc' = [qpc EXCEPT ![p] = "fetch_unlock"]
    /\ UNCHANGED <<tmpExists, tmpLines, lockExists, qtries, qheld, qrow, qlimit,
                   qread, qhist>>

\* fetch: the finally clause; fetch returns `out` (or re-raises).
FetchUnlock(p) ==
    /\ UNCHANGED <<bvars, svars, dvars, kvars, xvars>>
    /\ qpc[p] \in {"fetch_unlock", "fetch_raise"}
    /\ Unlock
    /\ fetchedLog' = Append(fetchedLog, FetchRecord(p))
    /\ qpc' = [qpc EXCEPT ![p] = "idle"]
    /\ qheld' = [qheld EXCEPT ![p] = FALSE]
    /\ qread' = [qread EXCEPT ![p] = <<>>]
    /\ UNCHANGED <<qExists, qLines, tmpExists, tmpLines, qtries, qrow, qlimit,
                   nextRow, pushedLog, faults>>

\* The process dies inside a push or fetch and is started again: what the
\* call held in memory is gone, the files stay as they are (the lock file too,
\* and the temporary file, written in full or in part).
Crash(p) ==
    /\ UNCHANGED <<bvars, svars, dvars, kvars, xvars>>
    /\ qpc[p] # "idle"
    /\ faults < MaxFaults
    /\ faults' = faults + 1
    /\ qpc' = [qpc EXCEPT ![p] = "idle"]
    /\ qtries' = [qtries EXCEPT ![p] = 0]
    /\ qheld' = [qheld EXCEPT ![p] = FALSE]
    /\ qrow' = [qrow EXCEPT ![p] = 0]
    /\ qlimit' = [qlimit EXCEPT ![p] = 0]
    /\ qread' = [qread EXCEPT ![p] = <<>>]
    /\ IF qpc[p] = "fetch_tmp"
       THEN \/ UNCHANGED <<tmpExists, tmpLines>>
            \/ \E n \in 0 .. Len(RestLines(qlimit[p], qread[p])) :
                  /\ tmpExists' = TRUE
                  /\ tmpLines' = SubSeq(RestLines(qlimit[p], qread[p]), 1, n)
       ELSE UNCHANGED <<tmpExists, tmpLines>>
    /\ UNCHANGED <<qExists, qLines, lockExists, nextRow, pushedLog, fetchedLog>>

\* Several processes pushing and fetching concurrently.
QNext ==
    \/ \E p \in Procs : PushCall(p)
    \/ \E p \in Procs : FetchCall(p)
    \/ \E p \in Procs : LockAttempt(p)
    \/ \E p \in Procs : PushAppend(p)
    \/ \E p \in Procs : PushUnlock(p)
    \/ \E p \in Procs : FetchRead(p)
    \/ \E p \in Procs : FetchWriteTmp(p)
    \/ \E p \in Procs : FetchReplace(p)
    \/ \E p \in Procs : FetchRemove(p)
    \/ \E p \in Procs : FetchUnlock(p)

\* One caller issuing its calls in sequence: each returns before the next starts.
QSeqNext ==
    \/ PushCall(1)
    \/ FetchCall(1)
    \/ LockAttempt(1)
    \/ PushAppend(1)
    \/ PushUnlock(1)
    \/ FetchRead(1)
    \/ FetchWriteTmp(1)
    \/ FetchReplace(1)
    \/ FetchRemove(1)
    \/ FetchUnlock(1)

-----------------------------------------------------------------------------
\* CircuitBreaker.  allow, on_success and on_failure hold an asyncio.Lock
\* around code that never awaits, so each runs without interleaving; the
\* wrapped function awaits, and other tasks' calls run while it is in flight.

Callers == 1 .. NumCallers

\* time.monotonic() - self._opened_at >= self.recovery_time
CooldownElapsed == now - cbOpenedAt >= RecoveryTime

\* allow(): False exactly when the state is OPEN and the cooldown has not elapsed.
AllowResult == ~(cbState = "OPEN" /\ ~CooldownElapsed)

AllowStateCloses == IF cbState = "OPEN" /\ CooldownElapsed THEN "CLOSED" ELSE cbState

\* allow(): the state it leaves behind: OPEN becomes HALF_OPEN after the cooldown.
AllowState == IF cbState = "OPEN" /\ CooldownElapsed THEN "HALF_OPEN" ELSE cbState

OnSuccessKeepsFailures == cbFailures

\* on_success(): self.failures = 0
OnSuccessFailures == 0

TripsAboveThreshold(f) == f > FailureThreshold

\* on_failure(): if self.failures >= self.failure_threshold
Trips(f) == f >= FailureThreshold

\* on_failure(): self._opened_at = time.monotonic() when the breaker trips
OnFailureOpenedAt == now

BInit ==
    /\ cbState = "CLOSED"
    /\ cbFailures = 0
    /\ cbOpenedAt = 0
    /\ now = 0
    /\ cpc = [c \in Callers |-> "idle"]
    /\ ctrial = [c \in Callers |-> FALSE]
    /\ runs = 0
    /\ fnCalls = 0
    /\ consec = 0
    /\ cbLast = [ev |-> "none", pre |-> "CLOSED", elapsed |-> FALSE, trial |-> FALSE,
                 inflight |-> FALSE, calls |-> 0, at |-> 0]
    /\ trialFailAt = -1

\* A trial call (admitted by the OPEN -> HALF_OPEN transition) is in flight.
TrialInFlight == \E c \in Callers : cpc[c] = "running" /\ ctrial[c]

\* What an event records: the state and clock it met.
Event(ev, trial) ==
    [ev |-> ev, pre |-> cbState, elapsed |-> CooldownElapsed, trial |-> trial,
     inflight |-> TrialInFlight, calls |-> fnCalls, at |-> now]

\* run(fn): allow() returns True and fn() is started.
RunAdmitted(c) ==
    /\ cpc[c] = "idle"
    /\ runs < MaxRuns
    /\ AllowResult
    /\ cbState' = AllowState
    /\ cpc' = [cpc EXCEPT ![c] = "running"]
    /\ ctrial' = [ctrial EXCEPT ![c] = (cbState = "OPEN")]
    /\ runs' = runs + 1
    /\ fnCalls' = fnCalls + 1
    /\ cbLast' = Event("admit", cbState = "OPEN")
    /\ UNCHANGED <<cbFailures, cbOpenedAt, now, consec, trialFailAt>>
    /\ UNCHANGED <<qvars, svars, dvars, kvars, xvars>>

\* run(fn): allow() returns False and run raises RuntimeError("circuit_open").
RunRejected(c) ==
    /\ cpc[c] = "idle"
    /\ runs < MaxRuns
    /\ ~AllowResult
    /\ runs' = runs + 1
    /\ cbLast' = Event("reject", FALSE)
    /\ UNCHANGED <<bfields, now, cpc, ctrial, fnCalls, consec, trialFailAt>>
    /\ UNCHANGED <<qvars, svars, dvars, kvars, xvars>>

\* run(fn): fn() returned; on_success() and the result is returned.
FnReturns(c) ==
    /\ cpc[c] = "running"
    /\ cbFailures' = OnSuccessFailures
    /\ cbState' = "CLOSED"
    /\ cpc' = [cpc EXCEPT ![c] = "idle"]
    /\ ctrial' = [ctrial EXCEPT ![c] = FALSE]
    /\ consec' = 0
    /\ cbLast' = Event("success", ctrial[c])
    /\ UNCHANGED <<cbOpenedAt, now, runs, fnCalls, trialFailAt>>
    /\ UNCHANGED <<qvars, svars, dvars, kvars, xvars>>

\* run(fn): fn() raised; on_failure() and the exception is re-raised.
FnRaises(c) ==
    /\ cpc[c] = "running"
    /\ cbFailures' = cbFailures + 1
    /\ IF Trips(cbFailures + 1)
       THEN cbState' = "OPEN" /\ cbOpenedAt' = OnFailureOpenedAt
       ELSE UNCHANGED <<cbState, cbOpenedAt>>
    /\ cpc' = [cpc EXCEPT ![c] = "idle"]
    /\ ctrial' = [ctrial EXCEPT ![c] = FALSE]
    /\ consec' = consec + 1
    /\ cbLast' = Event("failure", ctrial[c])
    /\ trialFailAt' = IF ctrial[c] THEN now ELSE trialFailAt
    /\ UNCHANGED <<now, runs, fnCalls>>
    /\ UNCHANGED <<qvars, svars, dvars, kvars, xvars>>

\* The monotonic clock advances.
Tick ==
    /\ now < MaxTime
    /\ now' = now + 1
    /\ UNCHANGED <<bfields, cpc, ctrial, bhist>>
    /\ UNCHANGED <<qvars, svars, dvars, kvars, xvars>>

BNext ==
    \/ \E c \in Callers : RunAdmitted(c)
    \/ \E c \in Callers : RunRejected(c)
    \/ \E c \in Callers : FnReturns(c)
    \/ \E c \in Callers : FnRaises(c)
    \/ Tick

\* The steps of a call of the one caller once it is made: the event loop runs
\* them as they become ready.
QStep ==
    \/ LockAttempt(1)
    \/ PushAppend(1)
    \/ PushTorn(1)
    \/ PushUnlock(1)
    \/ FetchRead(1)
    \/ FetchWriteTmp(1)
    \/ FetchReplace(1)
    \/ FetchRemove(1)
    \/ FetchUnlock(1)

\* One caller whose writes may stop part-way and whose process may die and be
\* started again.
QCrashNext ==
    \/ PushCall(1)
    \/ FetchCall(1)
    \/ QStep
    \/ Crash(1)

-----------------------------------------------------------------------------
\* QdrantStore._call and the operations routed through it, and functions
\* decorated with net_retry.  Each task makes one call; the calls may overlap or
\* follow one another.  Both are tenacity retry loops with reraise=True
\* and stop_after_attempt; _call adds the rate limiter and the timeout around
\* every attempt, and QdrantStore.upsert dead-letters a terminal failure.

Tasks == 1 .. NumTasks

StoreOps == {"search", "search_same_domain", "upsert"}
\* "net" is a function decorated with net_retry; "slack_unconfigured" is
\* slack.send_message, decorated with net_retry(), when the bot token or the
\* channel id is not set: its body raises SlackError whenever it is invoked.
Ops == StoreOps \cup {"net", "slack_unconfigured"}

\* net_retry: attempts = int(max_attempts or settings.retry_max_attempts);
\* an argument of None (0 here) takes the setting.
NetRetryAttempts(arg) == IF arg = 0 THEN RetryMaxAttempts ELSE arg

StopsOneEarly(attempt, max) == attempt + 1 >= max

\* tenacity stop_after_attempt(max): stop once attempt_number >= max.
StopAfterAttempt(attempt, max) == attempt >= max

RaisesFirstError(attempt) == 1

\* tenacity reraise=True: the exception of the last attempt is raised (an
\* attempt's exception, a client error or asyncio.timeout's TimeoutError, is
\* identified by the attempt that raised it).
Reraised(attempt) == attempt

\* Only QdrantStore.upsert catches the terminal failure and calls write_dlq.
WritesDlq(op) == op = "upsert"

WaitFromRelease(last, period, time) == Max(0, last - time)

\* AsyncRateLimiter.acquire: wait = max(0.0, self._last + self.period - now)
Wait(last, period, time) == Max(0, last + period - time)

\* The wait due at the store's limiter.
LimWait == Wait(limLast, LimPeriod, now)

SInit ==
    /\ spc = [k \in Tasks |-> "idle"]
    /\ sop = [k \in Tasks |-> "net"]
    /\ smax = [k \in Tasks |-> 0]
    /\ splan = [k \in Tasks |-> 0]
    /\ sattempt = [k \in Tasks |-> 0]
    /\ sinv = [k \in Tasks |-> 0]
    /\ sfails = [k \in Tasks |-> 0]
    /\ sraised = [k \in Tasks |-> 0]
    /\ stime = [k \in Tasks |-> [start |-> 0, timedout |-> FALSE]]
    /\ limLast = 0 - LimPeriod
    /\ limHolder = 0
    /\ dlq = <<>>
    /\ clientCalls = 0
    /\ sconsec = 0
    /\ stripAt = 0
    /\ sLast = [consec |-> 0, since |-> 0]

\* A store operation or a net_retry-decorated function is called.  The wrapped
\* function will fail on its first `fails` attempts.
StartCall(k) ==
    /\ spc[k] = "idle"
    /\ \E op \in Ops, fails \in 0 .. RetryMaxAttempts, arg \in 0 .. 1 :
          /\ op = "slack_unconfigured" => (fails = RetryMaxAttempts /\ arg = 0)
          /\ sop' = [sop EXCEPT ![k] = op]
          /\ smax' = [smax EXCEPT ![k] =
                IF op \in StoreOps THEN RetryMaxAttempts ELSE NetRetryAttempts(arg)]
          /\ splan' = [splan EXCEPT ![k] = fails]
          /\ spc' = [spc EXCEPT ![k] = IF op \in StoreOps THEN "acquire" ELSE "ready"]
    /\ sattempt' = [sattempt EXCEPT ![k] = 1]
    /\ UNCHANGED <<sinv, sfails, sraised, limLast, limHolder, dlq, clientCalls, sconsec, stripAt, sLast, now>>
    /\ UNCHANGED stime
    /\ UNCHANGED <<qvars, bfields, cpc, ctrial, bhist, dvars, kvars, xvars>>

\* _run: await self._limiter.acquire().  The limiter's lock is taken; with no
\* wait due, _last is set and the lock released at once, otherwise the task
\* sleeps holding the lock.
LimiterEnter(k) ==
    /\ spc[k] = "acquire"
    /\ limHolder = 0
    /\ IF LimWait = 0
       THEN /\ limLast' = now
            /\ spc' = [spc EXCEPT ![k] = "ready"]
            /\ UNCHANGED limHolder
       ELSE /\ limHolder' = k
            /\ spc' = [spc EXCEPT ![k] = "limsleep"]
            /\ UNCHANGED limLast
    /\ UNCHANGED <<sop, smax, splan, sattempt, sinv, sfails, sraised, dlq,
                   clientCalls, sconsec, stripAt, sLast, now>>
    /\ UNCHANGED stime
    /\ UNCHANGED <<qvars, bfields, cpc, ctrial, bhist, dvars, kvars, xvars>>

\* acquire: asyncio.sleep(wait) is over; self._last = time.monotonic().
LimiterWake(k) ==
    /\ spc[k] = "limsleep"
    /\ LimWait = 0
    /\ limLast' = now
    /\ limHolder' = 0
    /\ spc' = [spc EXCEPT ![k] = "ready"]
    /\ UNCHANGED <<sop, smax, splan, sattempt, sinv, sfails, sraised, dlq,
                   clientCalls, sconsec, stripAt, sLast, now>>
    /\ UNCHANGED stime
    /\ UNCHANGED <<qvars, bfields, cpc, ctrial, bhist, dvars, kvars, xvars>>

\* settings.qdrant_timeout, in ticks
QdrantTimeout == 1

NoDeadline(start) == start + QdrantTimeout + MaxTime

\* async with asyncio.timeout(settings.qdrant_timeout): when the block is left
\* at the latest.
AttemptDeadline(start) == start + QdrantTimeout

\* Task k's attempt of a store operation is inside the asyncio.timeout block at
\* its deadline: the await is cancelled and the attempt raises TimeoutError.
TimedOut(k) ==
    /\ spc[k] = "calling"
    /\ sop[k] \in StoreOps
    /\ now >= AttemptDeadline(stime[k].start)

\* The attempt invokes the wrapped function (for the store: the blocking client
\* call, in a thread, under asyncio.timeout).
Invoke(k) ==
    /\ spc[k] = "ready"
    /\ spc' = [spc EXCEPT ![k] = "calling"]
    /\ sinv' = [sinv EXCEPT ![k] = sinv[k] + 1]
    /\ stime' = [stime EXCEPT ![k].start = now]
    /\ clientCalls' = IF sop[k] \in StoreOps THEN clientCalls + 1 ELSE clientCalls
    /\ sLast' = IF sop[k] \in StoreOps
                THEN [consec |-> sconsec, since |-> Min(now - stripAt, RecoveryTime)]
                ELSE sLast
    /\ UNCHANGED <<sop, smax, splan, sattempt, sfails, sraised, limLast,
                   limHolder, dlq, sconsec, stripAt, now>>
    /\ UNCHANGED <<qvars, bfields, cpc, ctrial, bhist, dvars, kvars, xvars>>

\* The attempt's function returned: the retry loop returns its result.
AttemptSucceeds(k) ==
    /\ spc[k] = "calling"
    /\ sattempt[k] > splan[k]
    /\ spc' = [spc EXCEPT ![k] = "returned"]
    /\ sconsec' = IF sop[k] \in StoreOps THEN 0 ELSE sconsec
    /\ UNCHANGED <<sop, smax, splan, sattempt, sinv, sfails, sraised, limLast,
                   limHolder, dlq, clientCalls, stripAt, sLast, now>>
    /\ stime' = [stime EXCEPT ![k].start = 0]
    /\ UNCHANGED <<qvars, bfields, cpc, ctrial, bhist, dvars, kvars, xvars>>

\* A dead-letter record: write_dlq(op, payload, reason) appends one line to
\* dlq/<op>.jsonl.
DlqRecord(k, reason) == [op |-> "qdrant_upsert", call |-> k, reason |-> reason]

\* The attempt raised (or timed out).  With attempts left the loop goes to sleep
\* before the next one; otherwise the last exception is re-raised, upsert
\* appends its dead-letter record, and the exception reaches the caller.
AttemptFails(k) ==
    /\ spc[k] = "calling"
    /\ sattempt[k] <= splan[k]
    /\ sfails' = [sfails EXCEPT ![k] = sfails[k] + 1]
    /\ stime' = [stime EXCEPT ![k] = [start |-> 0, timedout |-> TimedOut(k)]]
    /\ IF StopAfterAttempt(sattempt[k], smax[k])
       THEN /\ spc' = [spc EXCEPT ![k] = "raised"]
            /\ sraised' = [sraised EXCEPT ![k] = Reraised(sattempt[k])]
            /\ dlq' = IF WritesDlq(sop[k])
                      THEN Append(dlq, DlqRecord(k, Reraised(sattempt[k])))
                      ELSE dlq
            /\ UNCHANGED sattempt
       ELSE /\ spc' = [spc EXCEPT ![k] = "backoff"]
            /\ sattempt' = [sattempt EXCEPT ![k] = sattempt[k] + 1]
            /\ UNCHANGED <<sraised, dlq>>
    /\ sconsec' = IF sop[k] \in StoreOps THEN sconsec + 1 ELSE sconsec
    /\ stripAt' = IF sop[k] \in StoreOps /\ sconsec + 1 >= FailureThreshold
                  THEN now ELSE stripAt
    /\ UNCHANGED <<sop, smax, splan, sinv, limLast, limHolder,
                   clientCalls, sLast, now>>
    /\ UNCHANGED <<qvars, bfields, cpc, ctrial, bhist, dvars, kvars, xvars>>

\* The backoff sleep (wait_exponential_jitter) is over: the next attempt begins.
Backoff(k) ==
    /\ spc[k] = "backoff"
    /\ spc' = [spc EXCEPT ![k] = IF sop[k] \in StoreOps THEN "acquire" ELSE "ready"]
    /\ UNCHANGED <<sop, smax, splan, sattempt, sinv, sfails, sraised, limLast,
                   limHolder, dlq, clientCalls, sconsec, stripAt, sLast, now>>
    /\ UNCHANGED stime
    /\ UNCHANGED <<qvars, bfields, cpc, ctrial, bhist, dvars, kvars, xvars>>

\* The monotonic clock advances, no further than the deadline of an attempt
\* under asyncio.timeout.
STick == Tick /\ \A k \in Tasks : ~TimedOut(k)

SNext ==
    \/ \E k \in Tasks : StartCall(k)
    \/ \E k \in Tasks : LimiterEnter(k)
    \/ \E k \in Tasks : LimiterWake(k)
    \/ \E k \in Tasks : Invoke(k)
    \/ \E k \in Tasks : AttemptSucceeds(k)
    \/ \E k \in Tasks : AttemptFails(k)
    \/ \E k \in Tasks : Backoff(k)
    \/ STick

-----------------------------------------------------------------------------
\* dedup.upsert_and_check, called by concurrent requests against one Qdrant
\* collection.  Each store operation stands for the whole retried call of the
\* section above and has one of three outcomes: it returns, it raises a Qdrant
\* client error after its retries, or it raises any other error (a timeout).
\* Similarities are in thousandths.

NumRequests == 2

Requests == 1 .. NumRequests

\* settings.dedup_same_domain_min_sim and settings.dedup_global_min_sim.
SameDomainFloor == 940
GlobalFloor == 985

\* top_k of the two searches.
TopK == 5

\* A URL is its hostname, as a sequence of labels (empty: no hostname), and
\* the rest.
Url(host, path) == [host |-> host, path |-> path]

Urls ==
    { Url(<<"www", "a">>, "/1"), Url(<<"A">>, "/2"),
      Url(<<"b">>, "/1"), Url(<<>>, "/1"), Url(<<>>, "/2") }

\* str.lower() of a label.
Lower(label) ==
    CASE label = "A" -> "a"
      [] label = "WWW" -> "www"
      [] OTHER -> label

KeepsWww(url) == [i \in 1 .. Len(url.host) |-> Lower(url.host[i])]

\* canonical_domain(url): the hostname, lowercased, without a leading "www.".
canonical_domain(url) ==
    LET host == [i \in 1 .. Len(url.host) |-> Lower(url.host[i])]
    IN  IF Len(host) > 1 /\ Head(host) = "www" THEN Tail(host) ELSE host

IdKeyFresh(url) == <<"uuid5", url, Cardinality(points)>>

\* id_key(url): the UUIDv5 of the URL.
id_key(url) == <<"uuid5", url>>

\* The embedding vectors of the requests, and the cosine similarity the
\* collection reports for two of them.
Vectors == {"v1", "v2", "v3"}

Score(v, w) ==
    CASE v = w -> 1000
      [] {v, w} = {"v1", "v2"} -> 960
      [] {v, w} = {"v1", "v3"} -> 940
      [] OTHER -> 900

\* The payload argument: a dict, or something else.
Dict(d) == [isdict |-> TRUE, d |-> d]

Payloads ==
    { Dict(("title" :> <<"t">>) @@ ("domain" :> <<"evil">>)),
      Dict(("title" :> <<"t">>) @@ ("url" :> Url(<<"other">>, "/"))),
      [isdict |-> FALSE, d |-> <<>>] }

SkipsAtFloor(similarity, same_domain) ==
    similarity > (IF same_domain THEN SameDomainFloor ELSE GlobalFloor)

UsesGlobalFloor(similarity, same_domain) == similarity >= GlobalFloor

\* is_duplicate(similarity, same_domain=...)
is_duplicate(similarity, same_domain) ==
    LET floor == IF same_domain THEN SameDomainFloor ELSE GlobalFloor
    IN  similarity >= floor

\* One hit of a search: (str(p.id), float(p.score), p.payload or {}).
Hit(vector, p) ==
    [id |-> p.id, score |-> Score(vector, p.vector), payload |-> p.payload]

\* client.search: the points matching the filter, best score first, at most
\* `limit` of them.
RECURSIVE Ranked(_, _)
Ranked(vector, pts) ==
    IF pts = {} THEN <<>>
    ELSE LET p == CHOOSE x \in pts :
                     \A y \in pts : Score(vector, y.vector) <= Score(vector, x.vector)
         IN  <<Hit(vector, p)>> \o Ranked(vector, pts \ {p})

ClientSearch(vector, pts, limit) ==
    LET all == Ranked(vector, pts)
    IN  SubSeq(all, 1, Min(limit, Len(all)))

\* The points meeting search_same_domain's filter on payload.domain.
DomainFilter(domain) ==
    {p \in points : "domain" \in DOMAIN p.payload /\ p.payload["domain"] = domain}

BestOverKeepsLast(best, hits) == IF hits = <<>> THEN best ELSE <<hits[Len(hits)]>>

\* The loop over (hits_same, hits_all): best is <<>> for None, else one hit.
RECURSIVE BestOver(_, _)
BestOver(best, hits) ==
    IF hits = <<>> THEN best
    ELSE BestOver(IF best = <<>> \/ Head(hits).score > best[1].score
                  THEN <<Head(hits)>> ELSE best,
                  Tail(hits))

\* best after the try statement: None when the except clause ran.
Best(r) ==
    IF dcaught[r] THEN <<>> ELSE BestOver(BestOver(<<>>, dhitsSame[r]), dhitsAll[r])

MaxSim(r) == IF Best(r) # <<>> THEN Best(r)[1].score ELSE 0

\* (best[2].get("domain") if best else None) or ""
NnDomain(r) ==
    IF Best(r) # <<>> /\ "domain" \in DOMAIN Best(r)[1].payload
    THEN Best(r)[1].payload["domain"] ELSE <<>>

\* same_dom
SameDom(r) ==
    /\ Best(r) # <<>>
    /\ canonical_domain(durl[r]) # <<>>
    /\ NnDomain(r) # <<>>
    /\ canonical_domain(durl[r]) = NnDomain(r)

Dup(r) == is_duplicate(MaxSim(r), SameDom(r))

TrustsCaller(payload, domain) ==
    LET base == IF payload.isdict THEN payload.d ELSE <<>>
    IN  [k \in DOMAIN base \cup {"domain"} |->
            IF k \in DOMAIN base THEN base[k] ELSE domain]

\* clean_payload: a copy of a dict payload (else {}) with "domain" set.
CleanPayload(payload, domain) ==
    LET base == IF payload.isdict THEN payload.d ELSE <<>>
    IN  [k \in DOMAIN base \cup {"domain"} |->
            IF k = "domain" THEN domain ELSE base[k]]

\* The point QdrantStore.upsert writes: payload {**payload, "url": url}.
Point(r, url, vector, payload) ==
    [id |-> id_key(url), vector |-> vector,
     payload |-> [k \in DOMAIN payload \cup {"url"} |->
                     IF k = "url" THEN url ELSE payload[k]],
     by |-> r]

\* client.upsert: the point replaces the one with its id, if any.
ClientUpsert(p) == {q \in points : q.id # p.id} \cup {p}

DInit ==
    /\ points = {}
    /\ ddlq = <<>>
    /\ dpc = [r \in Requests |-> "idle"]
    /\ durl = [r \in 0 .. NumRequests |-> IF r = 0 THEN Url(<<"b">>, "/1") ELSE Url(<<>>, "")]
    /\ dvector = [r \in 0 .. NumRequests |-> IF r = 0 THEN "v3" ELSE ""]
    /\ dpayload = [r \in 0 .. NumRequests |-> [isdict |-> FALSE, d |-> <<>>]]
    /\ dhitsSame = [r \in Requests |-> <<>>]
    /\ dhitsAll = [r \in Requests |-> <<>>]
    /\ dcaught = [r \in Requests |-> FALSE]
    /\ dresult = [r \in Requests |-> [dup |-> FALSE, sim |-> 0, id |-> <<>>]]
    /\ dwrites = [r \in Requests |-> 0]
    /\ dstart = [r \in Requests |-> {}]
    /\ dalone = [r \in Requests |-> FALSE]
    /\ dsearches = [r \in Requests |-> <<>>]

\* The collection is not empty when the service starts: an invocation of an
\* earlier run (numbered 0, with the arguments DInit gives it) has upserted
\* its point.
DEarlier ==
    /\ points = {}
    /\ ddlq = <<>>
    /\ \A r \in Requests : dpc[r] = "idle"
    /\ points' = ClientUpsert(Point(0, durl[0], dvector[0],
                                    CleanPayload(dpayload[0], canonical_domain(durl[0]))))
    /\ UNCHANGED <<ddlq, dlocals, dhist>>
    /\ UNCHANGED <<qvars, bvars, svars, kvars, xvars>>

InProgress(r) == dpc[r] \in {"search_same_domain", "search", "upsert"}

\* How a store operation ends: it returns, raises UnexpectedResponse or
\* ResponseHandlingException, or raises another exception.
Outcomes == {"ok", "qdrant", "other"}

\* upsert_and_check(url, vector, payload) is called: store = QdrantStore(),
\* domain = canonical_domain(url); the same-domain search is skipped for an
\* empty domain.
DCall(r) ==
    /\ dpc[r] = "idle"
    /\ \E url \in Urls, vector \in Vectors, payload \in Payloads :
          /\ durl' = [durl EXCEPT ![r] = url]
          /\ dvector' = [dvector EXCEPT ![r] = vector]
          /\ dpayload' = [dpayload EXCEPT ![r] = payload]
          /\ dpc' = [dpc EXCEPT ![r] =
                IF canonical_domain(url) # <<>> THEN "search_same_domain" ELSE "search"]
    /\ dstart' = [dstart EXCEPT ![r] = points]
    /\ dalone' = [x \in Requests |->
                    IF x = r THEN \A y \in Requests \ {r} : ~InProgress(y)
                    ELSE IF InProgress(x) THEN FALSE ELSE dalone[x]]
    /\ UNCHANGED <<points, ddlq, dhitsSame, dhitsAll, dcaught, dresult, dwrites, dsearches>>
    /\ UNCHANGED <<qvars, bvars, svars, kvars, xvars>>

\* The except clauses of the search: a Qdrant client error is logged and best
\* stays None; any other exception is re-raised.
AfterSearchError(r, outcome) ==
    /\ dcaught' = [dcaught EXCEPT ![r] = (outcome = "qdrant")]
    /\ dpc' = [dpc EXCEPT ![r] = IF outcome = "qdrant" THEN "upsert" ELSE "search_raised"]

\* hits_same = await store.search_same_domain(vector, str(domain), top_k=5)
DSearchSameDomain(r) ==
    /\ dpc[r] = "search_same_domain"
    /\ \E outcome \in Outcomes :
          /\ IF outcome = "ok"
             THEN LET hits == ClientSearch(dvector[r],
                                           DomainFilter(canonical_domain(durl[r])), TopK)
                  IN  /\ dhitsSame' = [dhitsSame EXCEPT ![r] = hits]
                      /\ dpc' = [dpc EXCEPT ![r] =
                            IF hits = <<>> THEN "search" ELSE "upsert"]
                      /\ UNCHANGED dcaught
             ELSE /\ AfterSearchError(r, outcome)
                  /\ UNCHANGED dhitsSame
          /\ dsearches' = [dsearches EXCEPT ![r] =
                Append(@, [op |-> "search_same_domain", returned |-> outcome = "ok"])]
    /\ UNCHANGED <<points, ddlq, durl, dvector, dpayload, dhitsAll, dresult,
                   dwrites, dstart, dalone>>
    /\ UNCHANGED <<qvars, bvars, svars, kvars, xvars>>

\* hits_all = await store.search(vector, top_k=5)
DSearch(r) ==
    /\ dpc[r] = "search"
    /\ \E outcome \in Outcomes :
          /\ IF outcome = "ok"
             THEN /\ dhitsAll' = [dhitsAll EXCEPT ![r] =
                        ClientSearch(dvector[r], points, TopK)]
                  /\ dpc' = [dpc EXCEPT ![r] = "upsert"]
                  /\ UNCHANGED dcaught
             ELSE /\ AfterSearchError(r, outcome)
                  /\ UNCHANGED dhitsAll
          /\ dsearches' = [dsearches EXCEPT ![r] =
                Append(@, [op |-> "search", returned |-> outcome = "ok"])]
    /\ UNCHANGED <<points, ddlq, durl, dvector, dpayload, dhitsSame, dresult,
                   dwrites, dstart, dalone>>
    /\ UNCHANGED <<qvars, bvars, svars, kvars, xvars>>

PersistsOnlyNew(dup) == ~dup

\* The upsert follows the decision whatever the decision is.
Persists(dup) == TRUE

SwallowsUpsertError == "returned"

\* The except clauses of the upsert: the error is logged and re-raised.
AfterUpsertError == "upsert_raised"

\* write_dlq("qdrant_upsert", {"url": url, "payload": payload, ...}, str(e))
DDlqRecord(r, url, payload) ==
    [op |-> "qdrant_upsert", url |-> url, payload |-> payload, by |-> r]

\* The decision, then qid = await store.upsert(url, vector, clean_payload) and
\* the return.  A failed upsert is dead-lettered by the store and re-raised; the
\* write of an attempt that timed out may still have reached the collection.
DUpsert(r) ==
    /\ dpc[r] = "upsert"
    /\ LET domain == canonical_domain(durl[r])
           clean_payload == CleanPayload(dpayload[r], domain)
           p == Point(r, durl[r], dvector[r], clean_payload)
           decision == [dup |-> Dup(r), sim |-> MaxSim(r),
                        id |-> IF Dup(r) THEN p.id ELSE <<>>]
       IN  IF Persists(Dup(r))
           THEN \E outcome \in Outcomes, landed \in BOOLEAN :
                   /\ (outcome # "other") => ~landed
                   /\ IF outcome = "ok"
                      THEN /\ points' = ClientUpsert(p)
                           /\ dwrites' = [dwrites EXCEPT ![r] = dwrites[r] + 1]
                           /\ dresult' = [dresult EXCEPT ![r] = decision]
                           /\ dpc' = [dpc EXCEPT ![r] = "returned"]
                           /\ UNCHANGED ddlq
                      ELSE /\ points' = IF landed THEN ClientUpsert(p) ELSE points
                           /\ ddlq' = Append(ddlq, DDlqRecord(r, durl[r], clean_payload))
                           /\ dpc' = [dpc EXCEPT ![r] = AfterUpsertError]
                           /\ UNCHANGED <<dwrites, dresult>>
           ELSE /\ dresult' = [dresult EXCEPT ![r] = decision]
                /\ dpc' = [dpc EXCEPT ![r] = "returned"]
                /\ UNCHANGED <<points, ddlq, dwrites>>
    /\ UNCHANGED <<durl, dvector, dpayload, dhitsSame, dhitsAll, dcaught, dstart, dalone,
                   dsearches>>
    /\ UNCHANGED <<qvars, bvars, svars, kvars, xvars>>

DNext ==
    \/ DEarlier
    \/ \E r \in Requests : DCall(r)
    \/ \E r \in Requests : DSearchSameDomain(r)
    \/ \E r \in Requests : DSearch(r)
    \/ \E r \in Requests : DUpsert(r)

-----------------------------------------------------------------------------
\* feed_poller.SeenCache: mark_if_new over Redis (SET NX EX) with the bounded
\* in-process TTLCache as fallback.

NumSeenUrls == 3
MemMaxSize == 2
SeenTtl == 2
MaxSeenTime == 3
MaxSeenCalls == 4

SeenUrls == 1 .. NumSeenUrls

\* key = f"phishradar:seen:url:{_sha1(url)}"
SeenKey(url) == <<"phishradar:seen:url", url>>

\* TTLCache.expire(time): drop the entries whose time has come.
Expire(mem, time) == SelectSeq(mem, LAMBDA e : time < e.expires)

ContainsIgnoringTtl(mem, key, time) == \E i \in 1 .. Len(mem) : mem[i].key = key

\* key in self._mem: present and not expired.
MemContains(mem, key, time) ==
    \E i \in 1 .. Len(mem) : mem[i].key = key /\ time < mem[i].expires

\* Cache.__setitem__'s popitem loop: the oldest entries go until one more fits.
RECURSIVE MakeRoom(_)
MakeRoom(mem) == IF Len(mem) + 1 > MemMaxSize THEN MakeRoom(Tail(mem)) ELSE mem

MemSetOutlivesTtl(mem, key, time) ==
    LET live == SelectSeq(Expire(mem, time), LAMBDA e : e.key # key)
    IN  Append(MakeRoom(live), [key |-> key, expires |-> time + SeenTtl + 1])

\* self._mem[key] = 1: expire, make room, insert with expiry time + ttl.
MemSet(mem, key, time) ==
    LET live == SelectSeq(Expire(mem, time), LAMBDA e : e.key # key)
    IN  Append(MakeRoom(live), [key |-> key, expires |-> time + SeenTtl])

\* The URLs whose unexpired entry MemSet(mem, key, time) evicts.
EvictedBy(mem, key, time) ==
    {u \in SeenUrls :
        /\ MemContains(mem, SeenKey(u), time)
        /\ ~MemContains(MemSet(mem, key, time), SeenKey(u), time)}

\* SET key "1" NX EX ttl: whether the key is added.
RedisAdds(url) == kstore[url] = 0 \/ kstore[url] <= know

KInit ==
    /\ kstore = [u \in SeenUrls |-> 0]
    /\ kmem = <<>>
    /\ know = 1
    /\ kcalls = 0
    /\ ktrueAt = [u \in SeenUrls |-> -1]
    /\ kpath = [u \in SeenUrls |-> "none"]
    /\ kevicted = [u \in SeenUrls |-> FALSE]
    /\ kLast = [url |-> 0, result |-> FALSE, prev |-> -1, at |-> 0, fallback |-> FALSE]

\* The stores that have answered for a URL.
PathAfter(old, new) == IF old \in {"none", new} THEN new ELSE "both"

\* The history kept of a call that returned `result`.
Recorded(url, result, path) ==
    /\ kcalls' = kcalls + 1
    /\ ktrueAt' = IF result THEN [ktrueAt EXCEPT ![url] = know] ELSE ktrueAt
    /\ kpath' = [kpath EXCEPT ![url] = PathAfter(kpath[url], path)]
    /\ kLast' = [url |-> url, result |-> result, prev |-> ktrueAt[url], at |-> know,
                 fallback |-> path # "redis"]

\* mark_if_new(url), answered by Redis: return bool(added).
MarkRedis(url) ==
    /\ kcalls < MaxSeenCalls
    /\ kstore' = IF RedisAdds(url) THEN [kstore EXCEPT ![url] = know + SeenTtl] ELSE kstore
    /\ Recorded(url, RedisAdds(url), "redis")
    /\ UNCHANGED <<kmem, know, kevicted>>
    /\ UNCHANGED <<qvars, bvars, svars, dvars, xvars>>

\* mark_if_new(url), answered by self._mem: the Redis call raised, with the SET
\* applied or not.  A SeenCache whose _redis is None behaves as one whose every
\* Redis call raises unapplied.
MarkFallback(url) ==
    /\ kcalls < MaxSeenCalls
    /\ \E applied \in BOOLEAN :
          /\ kstore' = IF applied /\ RedisAdds(url)
                       THEN [kstore EXCEPT ![url] = know + SeenTtl] ELSE kstore
          /\ LET key == SeenKey(url)
                 found == MemContains(kmem, key, know)
             IN  /\ kmem' = IF found THEN kmem ELSE MemSet(kmem, key, know)
                 /\ kevicted' = IF found THEN kevicted
                                ELSE [u \in SeenUrls |->
                                        kevicted[u] \/ u \in EvictedBy(kmem, key, know)]
                 /\ Recorded(url, ~found, IF applied THEN "both" ELSE "mem")
    /\ UNCHANGED know
    /\ UNCHANGED <<qvars, bvars, svars, dvars, xvars>>

\* Time passes.
SeenTick ==
    /\ know < MaxSeenTime
    /\ know' = know + 1
    /\ UNCHANGED <<kstore, kmem, khist>>
    /\ UNCHANGED <<qvars, bvars, svars, dvars, xvars>>

KNext ==
    \/ \E url \in SeenUrls : MarkRedis(url)
    \/ \E url \in SeenUrls : MarkFallback(url)
    \/ SeenTick

-----------------------------------------------------------------------------
\* feed_poller.FeedPoller._poll_once, one cycle at a time, and main.ingest_submit.

MaxBatch == 2      \* items in one fetched batch
MaxPollLimit == 1  \* largest limit argument
MaxPollCalls == 2  \* poll cycles and /ingest/submit requests

\* limit=None
NoLimit == -1

\* The empty string.
EmptyUrl == Url(<<>>, "")

\* http://A/1 and http://www.a/1 differ only by hostname case and a leading www.
PollUrls == {Url(<<"A">>, "/1"), Url(<<"www", "a">>, "/1"), EmptyUrl}

RowWithRawHost(u, src) == [url |-> u, domain |-> u.host, title |-> u.host, src |-> src]

\* row = {"url": u, "domain": dom, "title": dom, "ts": now_ts, "src": it.source}
PollerRow(u, src) ==
    LET dom == canonical_domain(u)
    IN  [url |-> u, domain |-> dom, title |-> dom, src |-> src]

\* row = {"url": url, "domain": dom, "title": body.get("title") or dom, "ts": ...}
SubmitRow(u, title) ==
    LET dom == canonical_domain(u)
    IN  [url |-> u, domain |-> dom, title |-> IF title = "" THEN dom ELSE title]

PInit ==
    /\ pcache = {}
    /\ prows = <<>>
    /\ ppc = "idle"
    /\ pforce = FALSE
    /\ plimit = NoLimit
    /\ pmerged = <<>>
    /\ pidx = 0
    /\ pseenLocal = {}
    /\ pcount = 0
    /\ pret = 0
    /\ pstat = [rows0 |-> 0, cache0 |-> {}, marks |-> 0, failed |-> {}]
    /\ pcalls = 0

\* _poll_once(force=force, limit=limit) is called and starts fetching the feeds.
PollCall(force, limit) ==
    /\ ppc \in {"idle", "returned"}
    /\ pcalls < MaxPollCalls
    /\ ppc' = "fetch"
    /\ pforce' = force
    /\ plimit' = limit
    /\ pmerged' = <<>>
    /\ pidx' = 0
    /\ pseenLocal' = {}
    /\ pcount' = 0
    /\ pstat' = [rows0 |-> Len(prows), cache0 |-> pcache, marks |-> 0, failed |-> {}]
    /\ pcalls' = pcalls + 1
    /\ UNCHANGED <<pcache, prows, pret>>
    /\ UNCHANGED <<coreVars, lvars, rvars, uvars>>

\* out.append(FeedItem(url=..., source=...)): a feed yields one more item.
FetchItem(u) ==
    /\ ppc = "fetch"
    /\ Len(pmerged) < MaxBatch
    /\ pmerged' = Append(pmerged, u)
    /\ UNCHANGED <<pcache, prows, ppc, pforce, plimit, pidx, pseenLocal, pcount, pret,
                   pstat, pcalls>>
    /\ UNCHANGED <<coreVars, lvars, rvars, uvars>>

\* merged = items: the feeds are fetched.
PollMerged ==
    /\ ppc = "fetch"
    /\ ppc' = "loop"
    /\ UNCHANGED <<pcache, prows, pforce, plimit, pmerged, pidx, pseenLocal, pcount,
                   pret, pstat, pcalls>>
    /\ UNCHANGED <<coreVars, lvars, rvars, uvars>>

\* limit is not None and new_count >= max(0, int(limit))
LimitReached(limit, count) == limit # NoLimit /\ count >= limit

ConsultsAlways(force, skipped) == ~skipped

\* `if not force:` for an item the loop has not skipped: mark_if_new is called.
Consults(force, skipped) == ~skipped /\ ~force

\* One pass of `for it in merged`, and `return new_count` when the pass breaks
\* the loop.  mark_if_new answers or raises; push returns or raises.
PollItem(markRaises, pushRaises) ==
    /\ ppc = "loop"
    /\ pidx < Len(pmerged)
    /\ pidx' = pidx + 1
    /\ LET u == pmerged[pidx + 1]
           skipped == u = EmptyUrl \/ u \in pseenLocal
           consults == Consults(pforce, skipped)
           is_new == ~consults \/ markRaises \/ u \notin pcache
           pushes == ~skipped /\ is_new
           count == IF pushes /\ ~pushRaises THEN pcount + 1 ELSE pcount
       IN  /\ pseenLocal' = IF skipped THEN pseenLocal ELSE pseenLocal \cup {u}
           /\ pcache' = IF consults /\ ~markRaises THEN pcache \cup {u} ELSE pcache
           /\ prows' = IF pushes /\ ~pushRaises
                        THEN Append(prows, PollerRow(u, "feed")) ELSE prows
           /\ pcount' = count
           /\ pstat' = [pstat EXCEPT
                           !.marks = IF consults THEN @ + 1 ELSE @,
                           !.failed = IF pushes /\ pushRaises THEN @ \cup {u} ELSE @]
           /\ IF pushes /\ LimitReached(plimit, count)
              THEN ppc' = "returned" /\ pret' = count
              ELSE UNCHANGED <<ppc, pret>>
    /\ UNCHANGED <<pforce, plimit, pmerged, pcalls>>
    /\ UNCHANGED <<coreVars, lvars, rvars, uvars>>

\* return new_count, the loop over.
PollReturn ==
    /\ ppc = "loop"
    /\ pidx = Len(pmerged)
    /\ ppc' = "returned"
    /\ pret' = pcount
    /\ UNCHANGED <<pcache, prows, pforce, plimit, pmerged, pidx, pseenLocal, pcount,
                   pstat, pcalls>>
    /\ UNCHANGED <<coreVars, lvars, rvars, uvars>>

\* POST /ingest/submit with a non-empty url.
IngestSubmit(u, title) ==
    /\ pcalls < MaxPollCalls
    /\ u # EmptyUrl
    /\ prows' = Append(prows, SubmitRow(u, title))
    /\ pcalls' = pcalls + 1
    /\ UNCHANGED <<pcache, ppc, pforce, plimit, pmerged, pidx, pseenLocal, pcount,
                   pret, pstat>>
    /\ UNCHANGED <<coreVars, lvars, rvars, uvars>>

PNext ==
    \/ \E force \in BOOLEAN, limit \in {NoLimit} \cup 0 .. MaxPollLimit : PollCall(force, limit)
    \/ \E u \in PollUrls : FetchItem(u)
    \/ PollMerged
    \/ \E markRaises, pushRaises \in BOOLEAN : PollItem(markRaises, pushRaises)
    \/ PollReturn
    \/ \E u \in PollUrls, title \in {"", "t"} : IngestSubmit(u, title)

-----------------------------------------------------------------------------
\* feed_poller.FeedPoller: start, stop and the loop task run().  What a poll
\* cycle does is modelled above; here a cycle begins and, possibly, ends.

NumStoppers == 2   \* concurrent callers of stop()
MaxLoopCalls == 3  \* start() and stop() calls
MaxLoopTime == 3   \* clock ticks

\* wait_for(self._task, timeout=5), in ticks
StopTimeout == 2

\* task.done()
Done(state) == state \in {"finished", "cancelled"}

AliveTasks == {i \in 1 .. Len(ltasks) : ~Done(ltasks[i])}

LInit ==
    /\ ltasks = <<>>
    /\ lstop = FALSE
    /\ lnow = 0
    /\ lstops = [c \in 1 .. NumStoppers |-> [pc |-> "idle", task |-> 0, since |-> 0]]
    /\ lstopped = {}
    /\ lLast = [op |-> "none", alive |-> FALSE, created |-> FALSE, changed |-> FALSE]
    /\ lcalls = 0

StartsAnyway(tasks) == TRUE

\* self._task is None or self._task.done()
NeedsTask(tasks) == tasks = <<>> \/ Done(tasks[Len(tasks)])

\* start(): clear _stop and create the loop task, unless one is running.
LStart ==
    /\ lcalls < MaxLoopCalls
    /\ lcalls' = lcalls + 1
    /\ IF NeedsTask(ltasks)
       THEN /\ lstop' = FALSE
            /\ ltasks' = Append(ltasks, "sleep")
       ELSE UNCHANGED <<lstop, ltasks>>
    /\ lLast' = [op |-> "start",
                 alive |-> AliveTasks # {},
                 created |-> ltasks' # ltasks,
                 changed |-> lstop' # lstop]
    /\ UNCHANGED <<lnow, lstops, lstopped>>
    /\ UNCHANGED <<coreVars, pvars, rvars, uvars>>

\* What `await asyncio.wait_for(self._task, ...)` under `except Exception: pass`
\* does to stop() once the task is done: the task's own exception and the
\* TimeoutError are swallowed, the CancelledError of a cancelled task is not.
AfterAwait(state) == IF state = "cancelled" THEN "raised" ELSE "returned"

\* stop() is called: set _stop; with no task, or a task already done, the
\* call is over; otherwise it awaits the task.
LStop(c) ==
    /\ lstops[c].pc # "waiting"
    /\ lcalls < MaxLoopCalls
    /\ lcalls' = lcalls + 1
    /\ lstop' = TRUE
    /\ LET t == Len(ltasks)
       IN  lstops' = [lstops EXCEPT ![c] =
                         IF t = 0 THEN [pc |-> "returned", task |-> 0, since |-> lnow]
                         ELSE IF Done(ltasks[t])
                              THEN [pc |-> AfterAwait(ltasks[t]), task |-> t, since |-> lnow]
                              ELSE [pc |-> "waiting", task |-> t, since |-> lnow]]
    /\ lLast' = [lLast EXCEPT !.op = "stop"]
    /\ UNCHANGED <<ltasks, lnow, lstopped>>
    /\ UNCHANGED <<coreVars, pvars, rvars, uvars>>

\* The awaited task is done before the timeout: stop() is over.
LStopTaskDone(c) ==
    /\ lstops[c].pc = "waiting"
    /\ Done(ltasks[lstops[c].task])
    /\ lstops' = [lstops EXCEPT ![c].pc = AfterAwait(ltasks[lstops[c].task])]
    /\ lstopped' = IF AfterAwait(ltasks[lstops[c].task]) = "returned"
                   THEN lstopped \cup {lstops[c].task} ELSE lstopped
    /\ UNCHANGED <<ltasks, lstop, lnow, lLast, lcalls>>
    /\ UNCHANGED <<coreVars, pvars, rvars, uvars>>

\* The timeout of wait_for is reached: it cancels the task, the TimeoutError
\* is swallowed and stop() returns.
LStopTimeout(c) ==
    /\ lstops[c].pc = "waiting"
    /\ ~Done(ltasks[lstops[c].task])
    /\ lnow - lstops[c].since >= StopTimeout
    /\ ltasks' = [ltasks EXCEPT ![lstops[c].task] = "cancelled"]
    /\ lstops' = [lstops EXCEPT ![c].pc = "returned"]
    /\ lstopped' = lstopped \cup {lstops[c].task}
    /\ UNCHANGED <<lstop, lnow, lLast, lcalls>>
    /\ UNCHANGED <<coreVars, pvars, rvars, uvars>>

\* run(): asyncio.sleep(2) or wait_for(self._stop.wait(), timeout=delay) is
\* over; `while not self._stop.is_set()` starts a cycle or ends the task.
LoopTest(i) ==
    /\ i \in 1 .. Len(ltasks)
    /\ ltasks[i] \in {"sleep", "wait"}
    /\ ltasks' = [ltasks EXCEPT ![i] = IF lstop THEN "finished" ELSE "cycle"]
    /\ UNCHANGED <<lstop, lnow, lstops, lstopped, lLast, lcalls>>
    /\ UNCHANGED <<coreVars, pvars, rvars, uvars>>

\* run(): _poll_once has returned or raised; the task waits for _stop.
CycleOver(i) ==
    /\ i \in 1 .. Len(ltasks)
    /\ ltasks[i] = "cycle"
    /\ ltasks' = [ltasks EXCEPT ![i] = "wait"]
    /\ UNCHANGED <<lstop, lnow, lstops, lstopped, lLast, lcalls>>
    /\ UNCHANGED <<coreVars, pvars, rvars, uvars>>

\* Time passes, once every stop() whose task is done has resumed, and no
\* further than the next timeout of a waiting stop().
LTick ==
    /\ lnow < MaxLoopTime
    /\ \A c \in 1 .. NumStoppers :
          lstops[c].pc = "waiting" =>
              /\ ~Done(ltasks[lstops[c].task])
              /\ lnow - lstops[c].since < StopTimeout
    /\ lnow' = lnow + 1
    /\ UNCHANGED <<ltasks, lstop, lstops, lstopped, lLast, lcalls>>
    /\ UNCHANGED <<coreVars, pvars, rvars, uvars>>

LNext ==
    \/ LStart
    \/ \E c \in 1 .. NumStoppers : LStop(c)
    \/ \E c \in 1 .. NumStoppers : LStopTaskDone(c)
    \/ \E c \in 1 .. NumStoppers : LStopTimeout(c)
    \/ \E i \in 1 .. MaxLoopCalls : LoopTest(i)
    \/ \E i \in 1 .. MaxLoopCalls : CycleOver(i)
    \/ LTick

-----------------------------------------------------------------------------
\* rate_limit.AsyncRateLimiter called by concurrent tasks: a limiter like the
\* store's (limLast, limHolder) with the rps it is constructed with and the
\* waiters of its asyncio.Lock, which are served first come first.  Here a tick
\* is 500 s and rps is counted in calls per 2000 s.

NumLimCallers == 2  \* concurrent callers of acquire()
MaxAcquires == 3    \* acquire() calls

\* The 0.001 of max(0.001, rps)
MinRps == 2

\* self.period = 1.0 / max(0.001, rps), in ticks
Period(rps) == 4 \div Max(MinRps, rps)

LimCallers == 1 .. NumLimCallers

RInit ==
    /\ rlim = [rps |-> 0, period |-> 0]
    /\ rpc = [c \in LimCallers |-> "idle"]
    /\ rqueue = <<>>
    /\ rret = <<>>

\* AsyncRateLimiter(rps)
RNew(rps) ==
    /\ rlim.period = 0
    /\ rlim' = [rps |-> rps, period |-> Period(rps)]
    /\ UNCHANGED <<rpc, rqueue, rret>>
    /\ UNCHANGED <<coreVars, pvars, lvars, uvars>>

\* acquire() with the lock held by caller c: with no wait due, _last is set and
\* the call returns, releasing the lock; otherwise c sleeps holding the lock.
WithLock(c) ==
    IF Wait(limLast, rlim.period, now) = 0
    THEN /\ limLast' = now
         /\ limHolder' = 0
         /\ rpc' = [rpc EXCEPT ![c] = "returned"]
         /\ rret' = Append(rret, now)
    ELSE /\ limHolder' = c
         /\ rpc' = [rpc EXCEPT ![c] = "sleeping"]
         /\ UNCHANGED <<limLast, rret>>

\* acquire() is called: `async with self._lock` takes a free lock nobody waits
\* for at once, and otherwise queues the caller.
RAcquire(c) ==
    /\ rlim.period > 0
    /\ rpc[c] \in {"idle", "returned"}
    /\ Len(rret) + Cardinality({d \in LimCallers : rpc[d] \in {"queued", "sleeping"}})
          < MaxAcquires
    /\ IF limHolder = 0 /\ rqueue = <<>>
       THEN WithLock(c) /\ UNCHANGED rqueue
       ELSE /\ rqueue' = Append(rqueue, c)
            /\ rpc' = [rpc EXCEPT ![c] = "queued"]
            /\ UNCHANGED <<limLast, limHolder, rret>>
    /\ UNCHANGED <<now, rlim>>
    /\ UNCHANGED <<qvars, bfields, cpc, ctrial, bhist, slocals, dlq, shist, dvars, kvars,
                   pvars, lvars, uvars>>

\* The lock is released to its first waiter.
RLocked(c) ==
    /\ rqueue # <<>>
    /\ Head(rqueue) = c
    /\ limHolder = 0
    /\ rqueue' = Tail(rqueue)
    /\ WithLock(c)
    /\ UNCHANGED <<now, rlim>>
    /\ UNCHANGED <<qvars, bfields, cpc, ctrial, bhist, slocals, dlq, shist, dvars, kvars,
                   pvars, lvars, uvars>>

\* asyncio.sleep(wait) is over: self._last = time.monotonic(), the lock is
\* released and acquire() returns.
RWake(c) ==
    /\ rpc[c] = "sleeping"
    /\ Wait(limLast, rlim.period, now) = 0
    /\ limLast' = now
    /\ limHolder' = 0
    /\ rpc' = [rpc EXCEPT ![c] = "returned"]
    /\ rret' = Append(rret, now)
    /\ UNCHANGED <<now, rlim, rqueue>>
    /\ UNCHANGED <<qvars, bfields, cpc, ctrial, bhist, slocals, dlq, shist, dvars, kvars,
                   pvars, lvars, uvars>>

\* The monotonic clock advances: up to MaxTime, and for as long as a caller
\* sleeps.
RTick ==
    /\ \/ now < MaxTime
       \/ \E c \in LimCallers :
             rpc[c] = "sleeping" /\ Wait(limLast, rlim.period, now) > 0
    /\ now' = now + 1
    /\ UNCHANGED <<bfields, cpc, ctrial, bhist, svars, rvars>>
    /\ UNCHANGED <<qvars, dvars, kvars, pvars, lvars, uvars>>

RNext ==
    \/ \E rps \in {1, 2, 4} : RNew(rps)
    \/ \E c \in LimCallers : RAcquire(c)
    \/ \E c \in LimCallers : RLocked(c)
    \/ \E c \in LimCallers : RWake(c)
    \/ RTick

-----------------------------------------------------------------------------
\* upsert_and_check invocations of one process over time.  Each invocation
\* builds its own QdrantStore, whose __init__ builds its own AsyncRateLimiter;
\* every client invocation of the store follows an acquire() of that limiter.

MaxInvocations == 3  \* upsert_and_check invocations

UInit ==
    /\ uinv = <<>>
    /\ ucalls = <<>>

\* upsert_and_check is called: store = QdrantStore(), whose limiter starts
\* with _last = 0.0, a period or more before any reading of the clock.
UCall ==
    /\ Len(uinv) < MaxInvocations
    /\ uinv' = Append(uinv, [pc |-> "search", last |-> 0 - LimPeriod])
    /\ UNCHANGED <<ucalls, now>>
    /\ UNCHANGED <<qvars, bfields, cpc, ctrial, bhist, svars, dvars, kvars, pvars, lvars, rvars>>

\* _run of invocation i: its limiter's acquire() returns, once the wait it
\* computes is over, and the client is invoked: the search, then the upsert.
UClientCall(i) ==
    /\ i \in 1 .. Len(uinv)
    /\ uinv[i].pc \in {"search", "upsert"}
    /\ Wait(uinv[i].last, LimPeriod, now) = 0
    /\ uinv' = [uinv EXCEPT ![i] =
                   [pc |-> IF uinv[i].pc = "search" THEN "upsert" ELSE "returned",
                    last |-> now]]
    /\ ucalls' = Append(ucalls, now)
    /\ UNCHANGED now
    /\ UNCHANGED <<qvars, bfields, cpc, ctrial, bhist, svars, dvars, kvars, pvars, lvars, rvars>>

\* The monotonic clock advances.
UTick ==
    /\ now < MaxTime
    /\ now' = now + 1
    /\ UNCHANGED uvars
    /\ UNCHANGED <<qvars, bfields, cpc, ctrial, bhist, svars, dvars, kvars, pvars, lvars, rvars>>

UNext ==
    \/ UCall
    \/ \E i \in 1 .. MaxInvocations : UClientCall(i)
    \/ UTick

-----------------------------------------------------------------------------
Init == QInit /\ BInit /\ SInit /\ DInit /\ KInit /\ PInit /\ LInit /\ RInit /\ UInit
Next == QNext

\* The IngestQueue shared by concurrent processes.
Spec == Init /\ [][Next]_vars
\* The IngestQueue used by one caller.
SpecQueueSeq == Init /\ [][QSeqNext]_vars
\* The IngestQueue used by one caller, with failing writes and crashes.
SpecQueueCrash == Init /\ [][QCrashNext]_vars /\ WF_vars(QStep)
\* One CircuitBreaker shared by concurrent tasks.
SpecBreaker == Init /\ [][BNext]_vars
\* One QdrantStore, and net_retry functions, called by concurrent tasks.
SpecStore == Init /\ [][SNext]_vars
\* upsert_and_check called by concurrent requests.
SpecDedup == Init /\ [][DNext]_vars
\* One SeenCache.
SpecSeen == Init /\ [][KNext]_vars
\* Poll cycles of one FeedPoller, one at a time, and external submissions.
SpecPollOnce == Init /\ [][PNext]_vars
\* One FeedPoller started and stopped by concurrent callers.
SpecPollerLoop == Init /\ [][LNext]_vars
\* upsert_and_check invocations of one process, each with its own QdrantStore.
SpecInvocations == Init /\ [][UNext]_vars
\* One AsyncRateLimiter called by concurrent tasks: the event loop resumes a
\* task whose lock or timer is ready, and time passes.
SpecLimiter ==
    /\ Init /\ [][RNext]_vars
    /\ \A c \in LimCallers : WF_vars(RLocked(c)) /\ WF_vars(RWake(c))
    /\ WF_vars(RTick)

-----------------------------------------------------------------------------
\* Properties of the IngestQueue.

\* The rows of all returned batches, in the order the fetches returned.
RECURSIVE Flatten(_)
Flatten(log) == IF log = <<>> THEN <<>> ELSE Head(log).rows \o Flatten(Tail(log))

\* C1: with one caller issuing push and fetch calls in sequence, whenever no
\* call is in progress the batches returned so far followed by the rows still
\* in the file are exactly the pushed rows in push order; every fetch returned
\* min(limit, rows remaining) rows; and the queue file exists only while rows
\* remain, so it is gone once everything has been popped.
C1_FifoComplete ==
    qpc[1] = "idle" =>
        /\ Flatten(fetchedLog) \o ParseLines(qLines) = pushedLog
        /\ \A i \in 1 .. Len(fetchedLog) :
              /\ fetchedLog[i].ok
              /\ Len(fetchedLog[i].rows) = Min(fetchedLog[i].limit, fetchedLog[i].before)
        /\ qExists <=> (qLines # <<>>)

\* C1 witness: all pushed rows were popped by two non-empty batches and the
\* file is gone.
C1_Witness ==
    /\ qpc[1] = "idle"
    /\ Len(pushedLog) = MaxRows
    /\ Len(fetchedLog) = 2
    /\ \A i \in 1 .. 2 : fetchedLog[i].rows # <<>>
    /\ Flatten(fetchedLog) = pushedLog
    /\ ~qExists

\* How many times row r occurs in a sequence of rows.
RECURSIVE Count(_, _)
Count(r, rows) ==
    IF rows = <<>> THEN 0
    ELSE (IF Head(rows) = r THEN 1 ELSE 0) + Count(r, Tail(rows))

AllIdle == \A p \in Procs : qpc[p] = "idle"

\* C2: under any interleaving of concurrent pushes and fetches no row is
\* returned by two fetches, and no pushed row is lost: once every call has
\* returned, each pushed row was returned by a fetch or is still in the file.
C2_ExactlyOnce ==
    /\ \A r \in Rows : Count(r, Flatten(fetchedLog)) <= 1
    /\ AllIdle =>
          \A r \in Rows :
              Count(r, pushedLog) = 1 =>
                  Count(r, Flatten(fetchedLog)) + Count(r, ParseLines(qLines)) = 1

\* Between the return of _lock and the return of _unlock.
CriticalPcs == {"push_append", "push_unlock", "fetch_read", "fetch_tmp",
                "fetch_replace", "fetch_remove", "fetch_unlock", "fetch_raise"}

InCritical == {p \in Procs : qpc[p] \in CriticalPcs}

\* C3: at most one push or fetch at a time is between the return of _lock and
\* the call of _unlock.
C3_MutualExclusion == Cardinality(InCritical) <= 1

-----------------------------------------------------------------------------
\* Properties of the CircuitBreaker.

LastWasRun == cbLast.ev \in {"admit", "reject"}

\* C4: once failure_threshold calls in a row have failed the breaker is OPEN,
\* and a run() that finds it OPEN before recovery_time has elapsed is rejected
\* without invoking the wrapped function.
C4_OpensAndRejects ==
    /\ (cbLast.ev = "failure" /\ consec >= FailureThreshold) => cbState = "OPEN"
    /\ (LastWasRun /\ cbLast.pre = "OPEN" /\ ~cbLast.elapsed) =>
          (cbLast.ev = "reject" /\ fnCalls = cbLast.calls)

\* C4 witness: the threshold was reached and a run() has just been rejected.
C4_Witness ==
    /\ cbLast.ev = "reject"
    /\ cbState = "OPEN"
    /\ consec = FailureThreshold
    /\ fnCalls = FailureThreshold

\* C5: a run() that finds the breaker OPEN once recovery_time has elapsed
\* invokes the wrapped function and leaves the breaker HALF_OPEN; when that
\* trial call succeeds the breaker is CLOSED with the failure count 0; and the
\* breaker is OPEN only when at least failure_threshold calls have failed since
\* the last success.
C5_Recovery ==
    /\ (LastWasRun /\ cbLast.pre = "OPEN" /\ cbLast.elapsed) =>
          (cbLast.ev = "admit" /\ fnCalls = cbLast.calls + 1 /\ cbState = "HALF_OPEN")
    /\ (cbLast.ev = "success" /\ cbLast.trial) =>
          (cbState = "CLOSED" /\ cbFailures = 0)
    /\ cbState = "OPEN" => consec >= FailureThreshold

\* C5 witness: the trial call found the breaker still HALF_OPEN and succeeded.
C5_Witness ==
    /\ cbLast.ev = "success"
    /\ cbLast.trial
    /\ cbLast.pre = "HALF_OPEN"
    /\ cbState = "CLOSED"

C7_TrialFailureReopens ==
    /\ (cbLast.ev = "failure" /\ cbLast.trial) =>
          (cbState = "OPEN" /\ cbOpenedAt = cbLast.at)
    /\ (cbLast.ev = "admit" /\ trialFailAt >= 0) =>
          cbLast.at - trialFailAt >= RecoveryTime

-----------------------------------------------------------------------------
\* Properties of QdrantStore and of the retry loops.

\* C8: every invocation of the vector-store client is guarded by a circuit
\* breaker: once failure_threshold client attempts in a row have failed, the
\* client is not invoked again until the cooldown has elapsed.
C8_BreakerGuardsStore ==
    clientCalls > 0 =>
        (sLast.consec < FailureThreshold \/ sLast.since >= RecoveryTime)

Finished(k) == spc[k] \in {"returned", "raised"}

\* The dead-letter records appended by call k.
DlqOf(k) == {i \in 1 .. Len(dlq) : dlq[i].call = k}

\* C9: a call whose wrapped function fails on its first k attempts and then
\* succeeds, with k + 1 within the attempt bound, returns successfully from
\* attempt k + 1, has invoked the function exactly k + 1 times, and has
\* written no dead-letter record.
C9_RetryThenSuccess ==
    \A k \in Tasks :
        (Finished(k) /\ splan[k] + 1 <= smax[k]) =>
            /\ spc[k] = "returned"
            /\ sattempt[k] = splan[k] + 1
            /\ sinv[k] = splan[k] + 1
            /\ sraised[k] = 0
            /\ DlqOf(k) = {}

\* C9 witness: an upsert that failed once returned from its second attempt.
C9_Witness ==
    \E k \in Tasks :
        /\ spc[k] = "returned"
        /\ sop[k] = "upsert"
        /\ splan[k] = 1
        /\ sinv[k] = 2

\* C10: an upsert whose client call fails on every attempt invokes it exactly
\* retry_max_attempts times, then appends exactly one record to the
\* qdrant_upsert dead-letter stream and raises the last attempt's error; the
\* record is not written before the attempts are exhausted.
C10_UpsertExhaustion ==
    \A k \in Tasks :
        /\ (sop[k] = "upsert" /\ Finished(k) /\ splan[k] >= smax[k]) =>
              /\ spc[k] = "raised"
              /\ sinv[k] = RetryMaxAttempts
              /\ Cardinality(DlqOf(k)) = 1
              /\ \A i \in DlqOf(k) :
                    dlq[i].op = "qdrant_upsert" /\ dlq[i].reason = RetryMaxAttempts
              /\ sraised[k] = RetryMaxAttempts
        /\ DlqOf(k) # {} => (spc[k] = "raised" /\ sinv[k] = RetryMaxAttempts)

\* C10 witness: an upsert has exhausted its attempts and raised.
C10_Witness ==
    \E k \in Tasks :
        /\ sop[k] = "upsert"
        /\ spc[k] = "raised"
        /\ sfails[k] = RetryMaxAttempts
        /\ Len(dlq) = 1

\* C11: every store operation routed through _call that ends in terminal
\* failure (its retries exhausted) has appended exactly one dead-letter record,
\* and its error has been raised to the caller.
C11_DlqEveryOperation ==
    \A k \in Tasks :
        (sop[k] \in StoreOps /\ spc[k] = "raised") =>
            /\ Cardinality(DlqOf(k)) = 1
            /\ sraised[k] = sattempt[k]

\* C28: an operation whose dependency is not configured fails on its first
\* invocation: the wrapped function body is executed exactly once, and the
\* error is then raised to the caller.
C28_ConfigFailureNotRetried ==
    \A k \in Tasks :
        sop[k] = "slack_unconfigured" =>
            /\ sinv[k] <= 1
            /\ Finished(k) => (spc[k] = "raised" /\ sinv[k] = 1 /\ sraised[k] = 1)

-----------------------------------------------------------------------------
\* Properties of upsert_and_check.

\* Similarities around the two floors.
Similarities ==
    {0, SameDomainFloor - 1, SameDomainFloor, SameDomainFloor + 1,
     GlobalFloor - 1, GlobalFloor, GlobalFloor + 1, 1000}

\* The floor upsert_and_check's decision for request r is held to.
FloorOf(r) == IF SameDom(r) THEN SameDomainFloor ELSE GlobalFloor

\* C12: is_duplicate(s, same_domain=True) is true exactly when s is at least
\* the same-domain floor and is_duplicate(s, same_domain=False) exactly when s
\* is at least the global floor, so at the floor itself the answer is true; and
\* every returned decision is the rule applied to the best similarity.
C12_DuplicateRule ==
    /\ \A s \in Similarities :
          /\ is_duplicate(s, TRUE) <=> (s >= SameDomainFloor)
          /\ is_duplicate(s, FALSE) <=> (s >= GlobalFloor)
    /\ is_duplicate(SameDomainFloor, TRUE)
    /\ is_duplicate(GlobalFloor, FALSE)
    /\ \A r \in Requests :
          dpc[r] = "returned" => (dresult[r].dup <=> (dresult[r].sim >= FloorOf(r)))

\* C12 witness: a request whose best neighbour is a same-domain point at
\* exactly the same-domain floor was reported a duplicate.
C12_Witness ==
    \E r \in Requests :
        /\ dpc[r] = "returned"
        /\ SameDom(r)
        /\ dresult[r].sim = SameDomainFloor
        /\ dresult[r].dup

\* C13: every invocation that returned a decision, duplicate or not, has had
\* exactly one store upsert return for its URL, and the collection holds a
\* point for that URL.
C13_PersistsAlways ==
    \A r \in Requests :
        dpc[r] = "returned" =>
            /\ dwrites[r] = 1
            /\ \E p \in points : p.id = id_key(durl[r]) /\ p.payload["url"] = durl[r]

\* C13 witness: an invocation that decided "duplicate" returned after its
\* upsert.
C13_Witness ==
    \E r \in Requests :
        /\ dpc[r] = "returned"
        /\ dresult[r].dup
        /\ dwrites[r] = 1

\* The keys of the payload argument of the request that wrote point p.
CallerKeys(p) == IF dpayload[p.by].isdict THEN DOMAIN dpayload[p.by].d ELSE {}

\* C14 as stated: every point written by upsert_and_check has payload.domain
\* equal to canonical_domain(url), and every other field of the caller's
\* payload is stored unchanged.
C14_DomainOverwritten ==
    \A p \in points :
        /\ p.payload["domain"] = canonical_domain(durl[p.by])
        /\ \A k \in CallerKeys(p) \ {"domain"} :
              k \in DOMAIN p.payload /\ p.payload[k] = dpayload[p.by].d[k]

\* C14 as amended: every point written by upsert_and_check has payload.domain
\* equal to canonical_domain(url) and payload.url equal to the submitted URL,
\* whatever the caller supplied for them, and every caller-supplied field other
\* than domain and url is stored unchanged.
C14_DomainAndUrlOverwritten ==
    \A p \in points :
        /\ p.payload["domain"] = canonical_domain(durl[p.by])
        /\ p.payload["url"] = durl[p.by]
        /\ \A k \in CallerKeys(p) \ {"domain", "url"} :
              k \in DOMAIN p.payload /\ p.payload[k] = dpayload[p.by].d[k]

\* C14 witness: a point written for a caller who supplied another domain, and
\* one written for a caller whose payload was not a dict.
C14_Witness ==
    /\ \E p \in points :
          /\ "domain" \in CallerKeys(p)
          /\ dpayload[p.by].d["domain"] # canonical_domain(durl[p.by])
          /\ "title" \in DOMAIN p.payload
    /\ \E p \in points : ~dpayload[p.by].isdict

\* The requests whose upsert for url u has returned.
Writers(u) == {r \in Requests : dpc[r] = "returned" /\ durl[r] = u}

\* The points stored for url u.
PointsOf(u) == {p \in points : p.payload["url"] = u}

\* C15: the point id is a function of the URL alone, so the collection holds
\* at most one point per URL; and once requests for the same URL have
\* returned, in sequence or concurrently, there is exactly one point for it,
\* whose content is the write of one request for that URL.
C15_IdempotentWrite ==
    \A u \in Urls :
        /\ Cardinality(PointsOf(u)) <= 1
        /\ \A p \in PointsOf(u) :
              /\ p.id = id_key(u)
              /\ durl[p.by] = u
              /\ p.vector = dvector[p.by]
              /\ p.payload = Point(p.by, u, dvector[p.by],
                                   CleanPayload(dpayload[p.by], canonical_domain(u))).payload
        /\ Writers(u) # {} => Cardinality(PointsOf(u)) = 1

\* C15 witness: two concurrent requests for the same URL with different
\* vectors have both returned and one point is stored.
C15_Witness ==
    \E r1, r2 \in Requests :
        /\ r1 # r2
        /\ dpc[r1] = "returned" /\ dpc[r2] = "returned"
        /\ durl[r1] = durl[r2]
        /\ dvector[r1] # dvector[r2]
        /\ ~dalone[r1] /\ ~dalone[r2]
        /\ Cardinality(points) = 1

\* C16: the id in a returned decision is the matched point's id: None whenever
\* is_duplicate is false, and the id of the best-scoring neighbour the search
\* returned whenever is_duplicate is true.
C16_MatchedPointId ==
    \A r \in Requests :
        dpc[r] = "returned" =>
            /\ ~dresult[r].dup => dresult[r].id = <<>>
            /\ dresult[r].dup => (Best(r) # <<>> /\ dresult[r].id = Best(r)[1].id)

\* A search of request r failed after its retries.
SearchFailed(r) == dcaught[r] \/ dpc[r] = "search_raised"

\* C17: a search that fails after its retries, whatever the error, does not
\* make upsert_and_check raise: the upsert is still attempted, and when it
\* succeeds the decision is "not a duplicate", similarity 0.0, no id.
C17_SearchFailsOpen ==
    \A r \in Requests :
        SearchFailed(r) =>
            /\ dpc[r] # "search_raised"
            /\ dpc[r] = "returned" =>
                  dresult[r] = [dup |-> FALSE, sim |-> 0, id |-> <<>>]

\* The dead-letter records appended for request r.
DDlqOf(r) == {i \in 1 .. Len(ddlq) : ddlq[i].by = r}

\* C18: an invocation whose final upsert failed terminally has raised without
\* returning a decision, after exactly one qdrant_upsert dead-letter record for
\* its URL was appended; and no invocation has both a returned decision and a
\* dead-letter record.
C18_NoFakeSuccess ==
    \A r \in Requests :
        /\ dpc[r] = "upsert_raised" =>
              /\ Cardinality(DDlqOf(r)) = 1
              /\ \A i \in DDlqOf(r) :
                    ddlq[i].op = "qdrant_upsert" /\ ddlq[i].url = durl[r]
              /\ dwrites[r] = 0
              /\ dresult[r] = [dup |-> FALSE, sim |-> 0, id |-> <<>>]
        /\ dpc[r] = "returned" => (DDlqOf(r) = {} /\ dwrites[r] = 1)

\* C18 witness: an invocation that had found a duplicate raised from its
\* upsert, with its dead-letter record written.
C18_Witness ==
    \E r \in Requests :
        /\ dpc[r] = "upsert_raised"
        /\ Dup(r)
        /\ Len(ddlq) >= 1

\* Request j ran alone on an empty collection and returned.
FirstOnEmpty(j) == dpc[j] = "returned" /\ dalone[j] /\ dstart[j] = {}

\* Request k ran alone, after j, on a collection holding only j's point, and
\* returned.
SecondAfter(j, k) ==
    /\ j # k
    /\ FirstOnEmpty(j)
    /\ dpc[k] = "returned"
    /\ dalone[k]
    /\ \E p \in dstart[k] : dstart[k] = {p} /\ p.by = j

\* C19 as stated: on an empty collection the first upsert_and_check returns
\* (false, 0.0, None); a second one, for a URL with the same canonical domain
\* and a vector of similarity s >= same_domain_floor to the stored point,
\* returns is_duplicate = true with similarity s.
C19_DecisionSequence ==
    \A j, k \in Requests :
        /\ FirstOnEmpty(j) => dresult[j] = [dup |-> FALSE, sim |-> 0, id |-> <<>>]
        /\ ( /\ SecondAfter(j, k)
             /\ canonical_domain(durl[k]) = canonical_domain(durl[j])
             /\ Score(dvector[k], dvector[j]) >= SameDomainFloor )
           => ( /\ dresult[k].dup
                /\ dresult[k].sim = Score(dvector[k], dvector[j]) )

\* C19 as amended: the same, for a second URL whose canonical domain is the
\* first one's and is not empty, and a second call whose search did not fail.
C19_DecisionSequenceWithDomain ==
    \A j, k \in Requests :
        /\ FirstOnEmpty(j) => dresult[j] = [dup |-> FALSE, sim |-> 0, id |-> <<>>]
        /\ ( /\ SecondAfter(j, k)
             /\ canonical_domain(durl[k]) = canonical_domain(durl[j])
             /\ canonical_domain(durl[k]) # <<>>
             /\ ~dcaught[k]
             /\ Score(dvector[k], dvector[j]) >= SameDomainFloor )
           => ( /\ dresult[k].dup
                /\ dresult[k].sim = Score(dvector[k], dvector[j]) )

\* C19 witness: after a first call on the empty collection, a second call for
\* another URL of the same domain, at similarity below the global floor, was
\* reported a duplicate.
C19_Witness ==
    \E j, k \in Requests :
        /\ SecondAfter(j, k)
        /\ durl[k] # durl[j]
        /\ canonical_domain(durl[k]) = canonical_domain(durl[j])
        /\ ~dresult[j].dup
        /\ dresult[k].dup
        /\ dresult[k].sim < GlobalFloor

-----------------------------------------------------------------------------
\* Properties of SeenCache.

\* The last call was the first for its URL, or came a full TTL or more after
\* the last True for it.
LastIsNew == kLast.prev = -1 \/ kLast.at - kLast.prev >= SeenTtl

\* C20 as stated: for any sequence of calls over any URLs, mark_if_new(u)
\* returns True exactly when u has not been answered True within the TTL
\* window: once per URL and window, False on every repeat until expiry.
C20_TrueOncePerWindow ==
    kcalls > 0 => (kLast.result <=> LastIsNew)

\* C20 as amended: the same, for a URL all of whose calls were answered by the
\* same store (Redis, or the in-process cache) and whose unexpired entry was
\* never evicted from the in-process cache for capacity.
C20_TrueOncePerWindowOneStore ==
    (kcalls > 0 /\ kpath[kLast.url] # "both" /\ ~kevicted[kLast.url]) =>
        (kLast.result <=> LastIsNew)

\* C20 witness: with the in-process cache full, a repeated URL was answered
\* False by it.
C20_Witness ==
    /\ kcalls > 0
    /\ ~kLast.result
    /\ kpath[kLast.url] = "mem"
    /\ ~kevicted[kLast.url]
    /\ Len(kmem) = MemMaxSize

\* C21 as stated: whenever the call to the shared store raises, mark_if_new
\* swallows the error and returns True.
C21_FailsOpenTrue ==
    (kcalls > 0 /\ kLast.fallback) => kLast.result

\* C21 as amended: whenever the call to the shared store raises, mark_if_new
\* swallows the error and answers from the in-process cache: it returns True
\* unless an earlier call for the same URL returned True less than a TTL ago.
C21_FailsOpenToLocalCache ==
    (kcalls > 0 /\ kLast.fallback) =>
        (kLast.result \/ (kLast.prev # -1 /\ kLast.at - kLast.prev < SeenTtl))

\* C21 witness: the shared store raised on every call for a URL and holds
\* nothing for it; the second call was answered False by the in-process cache.
C21_Witness ==
    /\ kcalls > 0
    /\ kLast.fallback
    /\ ~kLast.result
    /\ kstore[kLast.url] = 0
    /\ kLast.at > kLast.prev

-----------------------------------------------------------------------------
\* Properties of the poll cycle and of the queue rows.

CaseVariant == Url(<<"A">>, "/1")
WwwVariant == Url(<<"www", "a">>, "/1")

\* The non-empty URLs of the fetched batch.
Offered == {pmerged[i] : i \in 1 .. Len(pmerged)} \ {EmptyUrl}

\* The rows the current cycle has pushed, and those among them for URL u.
CycleRows == {i \in pstat.rows0 + 1 .. Len(prows) : "src" \in DOMAIN prows[i]}
RowsFor(u) == {i \in CycleRows : prows[i].url = u}

\* C22: a cycle whose batch holds two URLs differing only by hostname case and
\* a leading www., neither suppressed by the Seen Cache, no limit given and no
\* push failing, has enqueued exactly one row for the two, with their
\* canonical domain.
C22_BatchLocalDedup ==
    ( /\ ppc = "returned"
      /\ {CaseVariant, WwwVariant} \subseteq Offered
      /\ plimit = NoLimit
      /\ pstat.failed = {}
      /\ (pforce \/ pstat.cache0 = {}) )
    => /\ Cardinality(RowsFor(CaseVariant) \cup RowsFor(WwwVariant)) = 1
       /\ \A i \in RowsFor(CaseVariant) \cup RowsFor(WwwVariant) :
             prows[i].domain = <<"a">>

\* C23: for every limit >= 0, 0 included, and every batch, the cycle pushes at
\* most limit rows and returns a count of at most limit.
C23_LimitCaps ==
    (plimit # NoLimit /\ ppc \in {"loop", "returned"}) =>
        /\ Cardinality(CycleRows) <= plimit
        /\ ppc = "returned" => pret <= plimit

C29_QueueRowInvariant ==
    \A i \in 1 .. Len(prows) : prows[i].domain = canonical_domain(prows[i].url)

\* C29 witness: the queue holds a poller row and a submitted row, both for a
\* URL whose hostname is not its canonical domain.
C29_Witness ==
    \E i, j \in 1 .. Len(prows) :
        /\ "src" \in DOMAIN prows[i]
        /\ "src" \notin DOMAIN prows[j]
        /\ prows[i].url.host # prows[i].domain
        /\ prows[j].url.host # prows[j].domain
        /\ prows[j].title = "t"

\* C25: a start() that finds the loop task alive creates no task and leaves
\* _stop as it is, and at most one loop task is alive.
C25_StartIdempotent ==
    /\ lLast.alive => (~lLast.created /\ ~lLast.changed)
    /\ Cardinality(AliveTasks) <= 1

\* C25 witness: start() was called on a running poller while a stop() call was
\* awaiting its task; the one task is still alive and _stop still set.
C25_Witness ==
    /\ lLast.alive
    /\ lstop
    /\ lcalls = MaxLoopCalls
    /\ \E c \in 1 .. NumStoppers : lstops[c].pc = "waiting"
    /\ Len(ltasks) = 1
    /\ Cardinality(AliveTasks) = 1

\* C26: a stop() call awaits the task no longer than the grace period; no
\* stop() call raises, whatever state the poller is in; and a task that a
\* stop() call has returned for is done, so that it begins no further cycle.
C26_StopBounded ==
    /\ \A c \in 1 .. NumStoppers :
          /\ lstops[c].pc = "waiting" => lnow - lstops[c].since <= StopTimeout
          /\ lstops[c].pc # "raised"
    /\ \A i \in lstopped : Done(ltasks[i])

-----------------------------------------------------------------------------
\* Properties of the AsyncRateLimiter.

\* 1 / rps, in ticks.
Inverse(rps) == 4 \div rps

\* C27 as stated: any two successive returns from acquire() are at least
\* 1/rps apart, and every caller of acquire() eventually returns from it.
C27_MinimumSpacing ==
    /\ [](\A i \in 1 .. Len(rret) - 1 : rret[i + 1] - rret[i] >= Inverse(rlim.rps))
    /\ \A c \in LimCallers :
          [](rpc[c] \in {"queued", "sleeping"} => <>(rpc[c] = "returned"))

\* C27 as amended: any two successive returns from acquire() are at least the
\* limiter's period 1/max(0.001, rps) apart, which is 1/rps when rps is at
\* least 0.001, and every caller of acquire() eventually returns from it.
C27_MinimumSpacingOfPeriod ==
    /\ [](\A i \in 1 .. Len(rret) - 1 :
            /\ rret[i + 1] - rret[i] >= rlim.period
            /\ rlim.rps >= MinRps => rret[i + 1] - rret[i] >= Inverse(rlim.rps))
    /\ \A c \in LimCallers :
          [](rpc[c] \in {"queued", "sleeping"} => <>(rpc[c] = "returned"))

\* C27 witness: with rps = 0.001 one caller slept holding the lock while the
\* other queued for it, and two calls have returned exactly one period apart.
C27_Witness ==
    /\ rlim.rps = MinRps
    /\ Len(rret) = MaxAcquires
    /\ \A c \in LimCallers : rpc[c] = "returned"
    /\ \E i \in 1 .. Len(rret) - 1 : rret[i + 1] - rret[i] = rlim.period

-----------------------------------------------------------------------------
\* C37: once the CircuitBreaker is OPEN, its state and its cooldown start time
\* stay unchanged until recovery_time has elapsed; in particular the completion
\* of a call admitted before the breaker opened neither closes it nor restarts
\* the cooldown.
C37_OpenUntilRecovery ==
    [][(cbState = "OPEN" /\ ~CooldownElapsed)
          => (cbState' = "OPEN" /\ cbOpenedAt' = cbOpenedAt)]_vars

\* C38: in every reachable state, CLOSED implies failures < failure_threshold,
\* and OPEN or HALF_OPEN implies failures >= failure_threshold.
C38_StateCountInvariant ==
    /\ cbState = "CLOSED" => cbFailures < FailureThreshold
    /\ cbState \in {"OPEN", "HALF_OPEN"} => cbFailures >= FailureThreshold

\* A trial call admitted after the cooldown, while a call admitted earlier has
\* pushed the count past the threshold.
C38_Witness ==
    /\ cbState = "HALF_OPEN"
    /\ cbFailures > FailureThreshold
    /\ TrialInFlight

\* C39: at the end of any poll cycle, every URL for which mark_if_new returned
\* true during the cycle (the URLs the cycle added to the Seen Cache) has a row
\* in the Ingest Queue pushed by that cycle.
C39_NoSilentLoss ==
    ppc = "returned" => \A u \in pcache \ pstat.cache0 : RowsFor(u) # {}

\* C40: for any interleaving of start() and stop() on one FeedPoller, if the
\* last call issued is start(), then once all calls have returned a poller
\* task is alive with the stop flag clear.
C40_StartAfterStop ==
    (lLast.op = "start" /\ \A c \in 1 .. NumStoppers : lstops[c].pc # "waiting")
        => (AliveTasks # {} /\ ~lstop)

-----------------------------------------------------------------------------
\* The searches of invocation r are over.
SearchesOver(r) == dpc[r] \in {"upsert", "returned", "upsert_raised", "search_raised"}

\* The store searches invocation r issued, in order.
Issued(r) == [i \in 1 .. Len(dsearches[r]) |-> dsearches[r][i].op]

\* The same-domain search of invocation r returned, without hits.
SameReturnedNone(r) ==
    /\ dsearches[r] # <<>>
    /\ dsearches[r][1] = [op |-> "search_same_domain", returned |-> TRUE]
    /\ dhitsSame[r] = <<>>

\* The scores of the hits invocation r obtained.
ScoresObtained(r) ==
    {dhitsSame[r][i].score : i \in 1 .. Len(dhitsSame[r])}
        \cup {dhitsAll[r][i].score : i \in 1 .. Len(dhitsAll[r])}

\* C32: the same-domain search is issued first when the canonical domain is
\* not empty (and not at all otherwise); the unrestricted search is issued
\* exactly when the same-domain search returned no hits or the canonical
\* domain is empty; the similarity reported is the greatest score over the
\* hits obtained, or 0 when there are none.
C32_SearchOrdering ==
    \A r \in Requests :
        LET domain == canonical_domain(durl[r])
        IN  /\ (dsearches[r] # <<>> \/ SearchesOver(r)) =>
                  Issued(r)[1] = IF domain # <<>> THEN "search_same_domain" ELSE "search"
            /\ \A i \in 2 .. Len(dsearches[r]) : Issued(r)[i] = "search"
            /\ Len(dsearches[r]) <= 2
            /\ SearchesOver(r) =>
                  ( (\E i \in 1 .. Len(dsearches[r]) : Issued(r)[i] = "search")
                      <=> (domain = <<>> \/ SameReturnedNone(r)) )
            /\ dpc[r] = "returned" =>
                  /\ ScoresObtained(r) = {} => dresult[r].sim = 0
                  /\ ScoresObtained(r) # {} =>
                        /\ dresult[r].sim \in ScoresObtained(r)
                        /\ \A x \in ScoresObtained(r) : x <= dresult[r].sim

\* C32 witness: an invocation whose same-domain search returned nothing went
\* on to the unrestricted search, which returned several hits of different
\* scores, and reported the best of them.
C32_Witness ==
    \E r \in Requests :
        /\ dpc[r] = "returned"
        /\ SameReturnedNone(r)
        /\ Cardinality(ScoresObtained(r)) > 1
        /\ dresult[r].sim = 960

-----------------------------------------------------------------------------
\* C36: an operation removes the lock file only if it created it: a push or
\* fetch that went on without the lock, its retries exhausted, never deletes a
\* lock file that is there when it ends.
C36_LockOwnership ==
    [][\A p \in Procs :
          ( /\ qpc[p] \in {"push_unlock", "fetch_unlock", "fetch_raise"}
            /\ qpc'[p] = "idle"
            /\ lockExists /\ ~lockExists' )
          => qheld[p]]_vars

-----------------------------------------------------------------------------
\* Properties of the IngestQueue under corrupt lines, failing writes and
\* crashes, for one caller.

\* The lines fetch has read that its limit takes, and the ones after them.
TakenOf(p) == SubSeq(qread[p], 1, Min(qlimit[p], Len(qread[p])))
AfterTaken(p) == SubSeq(qread[p], Min(qlimit[p], Len(qread[p])) + 1, Len(qread[p]))

\* The rows of the lines of lns that parse, in the order of the lines.
GoodRows(lns) ==
    LET good == SelectSeq(lns, LAMBDA ln : ln.ok)
    IN  [i \in 1 .. Len(good) |-> good[i].row]

\* The queue file holds exactly the lines lns (and is absent when lns is empty).
FileIs(lns) == qLines = lns /\ (qExists <=> lns # <<>>)

\* C33: when some of the lines taken by fetch(limit) fail to parse, fetch does
\* not raise, returns the rows of the taken lines that parse in their original
\* order, and the lines after the taken ones are the queue, for later fetches
\* to return.
C33_CorruptionTolerance ==
    /\ qpc[1] # "fetch_raise"
    /\ (qpc[1] = "fetch_unlock" /\ qread[1] # <<>>) =>
          /\ FetchRecord(1).ok
          /\ FetchRecord(1).rows = GoodRows(TakenOf(1))
          /\ FileIs(AfterTaken(1))

\* C33 witness: a fetch took a line that does not parse and returned no row
\* for it, and the next fetch returned the row of the line after it.
C33_Witness ==
    /\ Len(fetchedLog) = 2
    /\ fetchedLog[1].ok /\ fetchedLog[1].limit = 1 /\ fetchedLog[1].before = 2
    /\ fetchedLog[1].rows = <<>>
    /\ fetchedLog[2].ok /\ fetchedLog[2].before = 1
    /\ Len(fetchedLog[2].rows) = 1

\* C34: if the process crashes at any step of fetch, the queue file holds
\* either all the lines it held before the fetch or exactly the lines not
\* taken (and is absent when none remain), never a part of the remainder.
C34_AtomicRewrite ==
    [][( /\ qpc[1] \in FetchPcs
         /\ qpc'[1] = "idle"
         /\ faults' # faults )
       => IF qpc[1] \in {"fetch_lock", "fetch_read"}
          THEN qLines' = qLines /\ qExists' = qExists
          ELSE \/ qLines' = qread[1] /\ qExists'
               \/ qLines' = AfterTaken(1) /\ (qExists' <=> AfterTaken(1) # <<>>)]_vars

\* C34 witness: the process died between writing the temporary file and
\* renaming it; the queue file still holds all its lines, the temporary file a
\* proper part of the remainder.
C34_Witness ==
    /\ qpc[1] = "idle"
    /\ lockExists
    /\ tmpExists
    /\ Len(qLines) > 2
    /\ Len(tmpLines) = 1

\* C35: no push or fetch blocks forever on the lock: also when the lock file
\* was left behind by a crashed process and is never removed by its owner,
\* _lock returns after its retries and the operation completes.
C35_LockBounded ==
    (qpc[1] \in {"push_lock", "fetch_lock"}) ~> (qpc[1] = "idle")

\* C35 witness: a push found the lock file of a crashed call on every retry,
\* went on without the lock and has returned.
C35_Witness ==
    /\ qpc[1] = "idle"
    /\ qtries[1] = LockRetries
    /\ ~lockExists
    /\ pushedLog # <<>>
    /\ qLines # <<>> /\ qLines[Len(qLines)].row = pushedLog[Len(pushedLog)]

-----------------------------------------------------------------------------
\* C31: across any sequence of upsert_and_check invocations in one process,
\* any two successive vector-store client invocations, those of different
\* upsert_and_check invocations included, are at least 1/qdrant_rps apart.
C31_RateAcrossInvocations ==
    \A i \in 1 .. Len(ucalls) - 1 : ucalls[i + 1] - ucalls[i] >= LimPeriod

=============================================================================
